---- MODULE Spec2Model ----
(***************************************************************************)
(* BoringPomodoro: the timer of PomodoroContext.tsx, the task lists of     *)
(* TaskContext, the session log and streaks of InsightsContext and the     *)
(* duration settings of SettingsContext / SettingsScreen.                  *)
(*                                                                         *)
(* The providers are React function components.  A function created in a   *)
(* render reads the state of that render for as long as it lives, so the   *)
(* model keeps, next to each piece of React state, the render scope that   *)
(* every long-lived function (the interval callback of startTimerInternal, *)
(* the continuation of handleTimerComplete, the auto-start timeout) was    *)
(* created in.  A scope is the record Scope(m, r, c, cb) of the state those *)
(* functions read: mode, remainingTime, completedPomodoros,                *)
(* onPomodoroComplete.  The state                                          *)
(* updates of one handler, continuation or timer callback are applied in   *)
(* one render (React 18 batching); the effects of that render run before   *)
(* the next event.                                                         *)
(***************************************************************************)
EXTENDS Integers, Sequences, FiniteSets, TLC

VARIABLES
    \* PomodoroContext.tsx: React state
    isPlaying, mode, completedPomodoros, remainingTime, onPomodoroComplete,
    \* PomodoroContext.tsx: the live interval of timerRef (its callback's scope)
    timerRef,
    \* the scope of the memoised startTimerInternal of the current render
    startScope,
    \* handleTimerComplete calls that are suspended at their awaits
    pendingComplete,
    \* setTimeout(() => startTimerInternal(), 100) calls not fired yet
    pendingAutoStart,
    \* FocusScreen.tsx: the countdown widget's own remaining time
    widgetRemaining,
    \* SettingsContext: settings.timer, the persisted copy, the load flag
    settings, storedSettings, settingsLoaded,
    \* SettingsScreen.tsx DurationRow: the text of each row's TextInput
    inputValue,
    \* TaskContext: React state, and the setTimeout(() => completeTask(id), 0) queue
    tasks, archivedTasks, currentTaskId, deferred, nextId,
    \* InsightsContext: React state, and the calendar day Date.now() falls on
    sessions, selectedCategory, currentStreak, bestStreak, today,
    \* history: expiries of a running Focus timer, H calls begun, steps taken,
    \* and whether resetSession was the last user action
    focusExpiries, completions, steps, afterReset,
    \* the device: Date.now() in seconds, and AppState.currentState
    now, appState,
    \* PomodoroContext.tsx refs: startTimeRef, notificationIdRef, userWantsAmbientRef
    startTimeRef, notificationIdRef, userWantsAmbient,
    \* PomodoroContext.tsx: isLoaded and isAmbientPlaying, and the sound that
    \* AudioService holds
    timerLoaded, isAmbientPlaying, audioAmbient,
    \* AsyncStorage: the snapshot under TIMER_STATE_KEY
    timerSnapshot,
    \* the notifications the operating system holds: those scheduled and not
    \* delivered yet, the TIMER_COMPLETE one on screen, and the ids given out
    scheduled, delivered, nextNotification,
    \* handlers of PomodoroContext.tsx that are suspended at an await
    pendingOps,
    \* the scope of the startTimerInternal that the notification action
    \* listener calls
    listenerScope,
    \* history: how many things the user and the system did to the app, and
    \* the handlers called last that ran with no other step in between
    events,
    \* PurchaseService: purchaserInfo, the copy under PREMIUM_STATUS_KEY, and
    \* the purchaseProduct / toggleMockPremium call suspended at its await
    purchaserInfo, premiumStatus, pendingPurchase,
    \* PremiumContext: isPremium; history: calls of its purchaser info listener
    isPremium, listenerCalls,
    \* PaywallScreen: selectedProduct and the Alert on screen
    selectedProduct, alert,
    \* the purchase function handed to PaywallScreen: null for PremiumContext's
    \* own, else the result a stand-in of the same type resolves with
    gateway,
    \* expo-av: the Audio.Sound instances that are loaded, and those playing
    loadedSounds, playingSounds,
    \* AudioService: ambientSound, isAmbientPlaying, and its calls suspended at
    \* an await; history: the calls issued and the one issued last
    ambientSound, ambientPlaying, audioCalls, audioIssued

timerVars == <<isPlaying, mode, completedPomodoros, remainingTime,
               onPomodoroComplete, timerRef, startScope, pendingComplete,
               pendingAutoStart, widgetRemaining>>
settingsVars == <<settings, storedSettings, settingsLoaded, inputValue>>
taskVars == <<tasks, archivedTasks, currentTaskId, deferred, nextId>>
insightVars == <<sessions, selectedCategory, currentStreak, bestStreak, today>>
historyVars == <<focusExpiries, completions, steps, afterReset>>
purchaseVars == <<purchaserInfo, premiumStatus, pendingPurchase, isPremium,
                  listenerCalls, selectedProduct, alert, gateway>>
osVars == <<now, appState, startTimeRef, notificationIdRef, userWantsAmbient,
            timerLoaded, isAmbientPlaying, audioAmbient, timerSnapshot,
            scheduled, delivered, nextNotification, pendingOps, listenerScope,
            events>>
audioVars == <<loadedSounds, playingSounds, ambientSound, ambientPlaying,
               audioCalls, audioIssued>>
serviceVars == <<purchaseVars, audioVars>>
deviceVars == <<osVars, serviceVars>>
vars == <<timerVars, settingsVars, taskVars, insightVars, historyVars, deviceVars>>

----------------------------------------------------------------------------
(* Bounds of the model *)

\* one-second ticks per minute: getDuration multiplies by 60; the model scales
\* the minute so that an interval expires within a few ticks
TicksPerMinute == 1
\* handleTimerComplete calls in one behaviour
MaxCompletions == 3
\* tasks ever created, and the cap on pomodorosCompleted
MaxTasks == 2
MaxPomodoros == 3
\* largest estimate offered to the task specification
MaxEstimate == 2
\* user edits of the durations in one behaviour
MaxEdits == 4
\* sessions in the log handed to calculateStreaks, and the calendar window
MaxSessions == 3
LastDay == 6

----------------------------------------------------------------------------
(* Values *)

NoInterval == [live |-> FALSE]
NoCallback == [set |-> FALSE]
NoTask == 0
Modes == {"focus", "shortBreak", "longBreak"}
Categories == {"work", "study"}

Scope(m, r, c, cb) ==
    [mode |-> m, remainingTime |-> r, completedPomodoros |-> c,
     onPomodoroComplete |-> cb]

defaultSettings ==
    [workDuration |-> 25, shortBreakDuration |-> 5, longBreakDuration |-> 15,
     autoStartNext |-> FALSE, pomodorosUntilLongBreak |-> 4,
     ambientSound |-> "none"]

\* AsyncStorage.getItem gave null: nothing was saved yet
NoData == [stored |-> FALSE]

\* nothing was done to the app yet
NoCalls == [n |-> 0, ops |-> <<>>, running |-> FALSE]

\* a ref or a field that is null; a value x that is present is <<x>>
null == <<>>

\* loadMockStatus with nothing stored
NoPurchaser ==
    [isPremium |-> FALSE, activeSubscriptions |-> <<>>, expirationDate |-> null,
     originalPurchaseDate |-> null]

\* PRODUCT_IDS
PRODUCT_IDS == [MONTHLY |-> "premium_monthly", ANNUAL |-> "premium_annual"]

\* PremiumProvider after initialize() on a fresh install, the paywall closed
IdlePurchase ==
    /\ purchaserInfo = NoPurchaser
    /\ premiumStatus = NoData
    /\ pendingPurchase = <<>>
    /\ isPremium = FALSE
    /\ listenerCalls = 0
    /\ selectedProduct = PRODUCT_IDS.ANNUAL
    /\ alert = null
    /\ gateway = null

\* AudioService as constructed: no sound was loaded and no call made
IdleAudio ==
    /\ loadedSounds = {}
    /\ playingSounds = {}
    /\ ambientSound = null
    /\ ambientPlaying = FALSE
    /\ audioCalls = {}
    /\ audioIssued = [n |-> 0, last |-> "none"]

\* The device while the timer, the task manager, the insights or the settings
\* are looked at on their own: the clock stands still, nothing is persisted,
\* scheduled or played, and no handler is suspended.
IdleDevice ==
    /\ now = 0
    /\ appState = "active"
    /\ startTimeRef = null
    /\ notificationIdRef = null
    /\ userWantsAmbient = FALSE
    /\ timerLoaded = TRUE
    /\ isAmbientPlaying = FALSE
    /\ audioAmbient = "none"
    /\ timerSnapshot = NoData
    /\ scheduled = {}
    /\ delivered = {}
    /\ nextNotification = 1
    /\ pendingOps = <<>>
    /\ listenerScope = Scope("focus", 0, 0, NoCallback)
    /\ events = NoCalls
    /\ IdlePurchase
    /\ IdleAudio

----------------------------------------------------------------------------
(* SettingsScreen: the text of a duration field and the number it stands for *)

\* the duration rows of the TIMER card, by the setting each one edits
Rows == {"workDuration", "shortBreakDuration", "longBreakDuration"}

\* the bounds of handleBlur and of the minus and plus buttons
MinDuration == 1
MaxDuration == 90

\* a text is the sequence of its characters
Digits == <<"0", "1", "2", "3", "4", "5", "6", "7", "8", "9">>
IsDigit(c) == \E d \in 1..Len(Digits) : Digits[d] = c
DigitValue(c) == (CHOOSE d \in 1..Len(Digits) : Digits[d] = c) - 1

RECURSIVE LeadingDigits(_, _)
\* the index of the last character of the run of digits that starts at i, or
\* i - 1 when there is none
LeadingDigits(text, i) ==
    IF i <= Len(text) /\ IsDigit(text[i]) THEN LeadingDigits(text, i + 1) ELSE i - 1

RECURSIVE DigitsValue(_, _, _)
\* the number written by the digits text[i..j]
DigitsValue(text, i, j) ==
    IF j < i THEN 0 ELSE 10 * DigitsValue(text, i, j - 1) + DigitValue(text[j])

\* parseInt(text, 10): an optional sign, then the digits up to the first
\* character that is none; NaN when there is no digit
parseInt(text) ==
    LET signed == text # <<>> /\ text[1] \in {"-", "+"}
        first == IF signed THEN 2 ELSE 1
        last == LeadingDigits(text, first)
        magnitude == DigitsValue(text, first, last)
    IN  IF last < first THEN [nan |-> TRUE, num |-> 0]
        ELSE [nan |-> FALSE,
              num |-> IF signed /\ text[1] = "-" THEN 0 - magnitude ELSE magnitude]

RECURSIVE toString(_)
\* Number.prototype.toString() of an integer
toString(num) ==
    IF num < 0 THEN <<"-">> \o toString(0 - num)
    ELSE IF num < 10 THEN <<Digits[num + 1]>>
    ELSE toString(num \div 10) \o <<Digits[(num % 10) + 1]>>

----------------------------------------------------------------------------
(* InsightsContext: dates and streaks *)

\* getDateString: the calendar date of a day, as the (month, day) of its
\* YYYY-MM-DD string; day 0 of the window is January 30
getDateString(n) == IF 30 + n <= 31 THEN <<1, 30 + n>> ELSE <<2, n - 1>>

\* new Date(dateString).getTime() / 86400000, counted from December 31
DayNumber(date) == IF date[1] = 1 THEN date[2] ELSE 31 + date[2]

\* the order of Array.prototype.sort() on YYYY-MM-DD strings
DateLeq(a, b) == a[1] < b[1] \/ (a[1] = b[1] /\ a[2] <= b[2])

RECURSIVE SortDescending(_)
\* [...new Set(...)].sort().reverse()
SortDescending(S) ==
    IF S = {} THEN <<>>
    ELSE LET last == CHOOSE x \in S : \A y \in S : DateLeq(y, x)
         IN  <<last>> \o SortDescending(S \ {last})

\* dayDiff of uniqueDates[i - 1] and uniqueDates[i]
DayDiff(uniqueDates, i) == DayNumber(uniqueDates[i - 1]) - DayNumber(uniqueDates[i])

Max(a, b) == IF a >= b THEN a ELSE b
Min(a, b) == IF a <= b THEN a ELSE b

RECURSIVE BestLoop(_, _, _, _)
\* the first loop of calculateStreaks, entered at index i with tempStreak and
\* bestStreak; returns bestStreak = Math.max(bestStreak, tempStreak) at its end
BestLoop(uniqueDates, i, tempStreak, best) ==
    IF i > Len(uniqueDates) THEN Max(best, tempStreak)
    ELSE IF i = 1 THEN BestLoop(uniqueDates, i + 1, 1, best)
    ELSE IF DayDiff(uniqueDates, i) = 1
         THEN BestLoop(uniqueDates, i + 1, tempStreak + 1, best)
         ELSE BestLoop(uniqueDates, i + 1, 1, Max(best, tempStreak))

\* a count of the dates that does not stop at a gap
CountAllDates(uniqueDates, i, tempStreak) == Len(uniqueDates)

RECURSIVE CurrentLoop(_, _, _)
\* the second loop of calculateStreaks: it breaks at the first gap
CurrentLoop(uniqueDates, i, tempStreak) ==
    IF i > Len(uniqueDates) THEN tempStreak
    ELSE IF DayDiff(uniqueDates, i) = 1
         THEN CurrentLoop(uniqueDates, i + 1, tempStreak + 1)
         ELSE tempStreak

calculateStreaks(log, day) ==
    IF Len(log) = 0 THEN [current |-> 0, best |-> 0]
    ELSE LET uniqueDates == SortDescending({log[i].date : i \in 1..Len(log)})
             todayString == getDateString(day)
             yesterday == getDateString(day - 1)
             streakActive == uniqueDates[1] = todayString \/ uniqueDates[1] = yesterday
         IN  [current |-> IF streakActive THEN CurrentLoop(uniqueDates, 2, 1) ELSE 0,
              best |-> BestLoop(uniqueDates, 1, 0, 0)]

\* a log that puts the new record first (not what addSession does)
addSessionFirst(data) ==
    /\ sessions' = <<data>> \o sessions
    /\ currentStreak' = calculateStreaks(sessions', today).current
    /\ bestStreak' = calculateStreaks(sessions', today).best
    /\ UNCHANGED <<selectedCategory, today>>

\* addSession, followed by the effect on [sessions, isLoaded] that recomputes
\* the streaks
addSession(data) ==
    /\ sessions' = Append(sessions, data)
    /\ currentStreak' = calculateStreaks(sessions', today).current
    /\ bestStreak' = calculateStreaks(sessions', today).best
    /\ UNCHANGED <<selectedCategory, today>>

----------------------------------------------------------------------------
(* TaskContext *)

\* prev.find((task) => task.id === id): the index of the first match, or 0
FindIndex(list, id) ==
    IF \E i \in 1..Len(list) : list[i].id = id
    THEN CHOOSE i \in 1..Len(list) :
            list[i].id = id /\ \A j \in 1..(i - 1) : list[j].id # id
    ELSE 0

\* a filter that drops nothing
WithoutNothing(list, id) == list

\* prev.filter((task) => task.id !== id)
Without(list, id) == SelectSeq(list, LAMBDA t : t.id # id)

\* const currentTask = tasks.find(...) || null, as an index into tasks
currentTask == FindIndex(tasks, currentTaskId)

\* FocusScreen: currentTask?.category || selectedCategory
effectiveCategory(list, cur, selected) ==
    IF FindIndex(list, cur) # 0 THEN list[FindIndex(list, cur)].category ELSE selected

\* the updater of incrementPomodoro
IncrementedTasks(list, id) ==
    [i \in 1..Len(list) |->
        IF list[i].id # id THEN list[i]
        ELSE [list[i] EXCEPT !.pomodorosCompleted = @ + 1]]

\* the test of the estimate with > in place of >=
ExceedsEstimate(list, id) ==
    \E i \in 1..Len(list) :
        list[i].id = id /\ list[i].pomodorosCompleted + 1 > list[i].pomodoroEstimate

\* whether the updater of incrementPomodoro schedules completeTask(id)
ReachesEstimate(list, id) ==
    \E i \in 1..Len(list) :
        list[i].id = id /\ list[i].pomodorosCompleted + 1 >= list[i].pomodoroEstimate

\* incrementPomodoro(id), called from a completion callback whose completeTask
\* was created in a render with currentTaskId = captured
incrementPomodoro(id, captured) ==
    /\ tasks' = IncrementedTasks(tasks, id)
    /\ deferred' = IF ReachesEstimate(tasks, id)
                   THEN Append(deferred, [id |-> id, currentTaskId |-> captured])
                   ELSE deferred
    /\ UNCHANGED <<archivedTasks, currentTaskId, nextId>>

\* the task completeTask puts in the archive
CompletedTask(t) == [t EXCEPT !.completed = TRUE, !.completedAt = "now"]

\* a completion that archives the task and leaves the selection as it is (not
\* what completeTask does)
completeTaskKeepingCurrent(list, archive, id, captured) ==
    /\ IF FindIndex(list, id) = 0
       THEN /\ tasks' = list
            /\ archivedTasks' = archive
       ELSE /\ archivedTasks' = <<CompletedTask(list[FindIndex(list, id)])>> \o archive
            /\ tasks' = Without(list, id)
    /\ UNCHANGED currentTaskId

\* completeTask(id) of a render with currentTaskId = captured, applied to the
\* lists list and archive
completeTask(list, archive, id, captured) ==
    /\ IF FindIndex(list, id) = 0
       THEN /\ tasks' = list
            /\ archivedTasks' = archive
       ELSE /\ archivedTasks' = <<CompletedTask(list[FindIndex(list, id)])>> \o archive
            /\ tasks' = Without(list, id)
    /\ currentTaskId' = IF captured = id THEN NoTask ELSE currentTaskId

----------------------------------------------------------------------------
(* PomodoroContext: the timer *)

getDuration(timerMode) ==
    CASE timerMode = "focus" -> settings.workDuration * TicksPerMinute
      [] timerMode = "shortBreak" -> settings.shortBreakDuration * TicksPerMinute
      [] timerMode = "longBreak" -> settings.longBreakDuration * TicksPerMinute
      [] OTHER -> settings.workDuration * TicksPerMinute

\* FocusScreen's effect: the callback it registers for the state of a render
RegisteredCallback(m, list, cur, selected) ==
    IF m = "focus"
    THEN [set |-> TRUE,
          taskId |-> IF FindIndex(list, cur) # 0 THEN cur ELSE NoTask,
          category |-> effectiveCategory(list, cur, selected),
          duration |-> settings.workDuration]
    ELSE NoCallback

\* One render after a batch of updates, then its effects.  startTimerInternal
\* is memoised on [mode, remainingTime, getDuration]: it is re-created, reading
\* the state of this render, only when one of them changed.  FocusScreen's
\* effect runs after the render and registers the callback of the new state.
Render ==
    /\ startScope' =
          IF mode' # mode \/ remainingTime' # remainingTime \/ settings' # settings
          THEN Scope(mode', remainingTime', completedPomodoros', onPomodoroComplete)
          ELSE startScope
    /\ onPomodoroComplete' =
          RegisteredCallback(mode, tasks, currentTaskId, selectedCategory)'

\* a start that sets the flag and creates no interval (not what
\* startTimerInternal does)
startWithoutInterval(s) ==
    /\ timerRef' = NoInterval
    /\ isPlaying' = TRUE

\* startTimerInternal of the render scope s: it replaces the interval of
\* timerRef by one whose callback belongs to s
startTimerInternal(s) ==
    /\ timerRef' = [live |-> TRUE, scope |-> s]
    /\ isPlaying' = TRUE

\* the part of handleTimerComplete before its first await: h is the scope the
\* called handleTimerComplete reads, s the scope of its startTimerInternal; at
\* and running record the mode and isPlaying the expiry was reported in, id the
\* notificationIdRef.current its first if read
BeginComplete(h, s) ==
    /\ completions < MaxCompletions
    /\ isPlaying' = FALSE
    /\ pendingComplete' = Append(pendingComplete,
                                 [h |-> h, s |-> s, at |-> mode, running |-> isPlaying,
                                  id |-> notificationIdRef])
    /\ completions' = completions + 1
    /\ focusExpiries' = IF isPlaying /\ mode = "focus"
                        THEN focusExpiries + 1 ELSE focusExpiries

\* the mode handleTimerComplete enters after a Focus interval
NextMode(newCount) ==
    IF newCount % settings.pomodorosUntilLongBreak = 0 THEN "longBreak" ELSE "shortBreak"

\* the registered callback cb (FocusScreen.tsx 133-145)
InvokeCallback(cb) ==
    IF cb.set
    THEN /\ addSession([date |-> getDateString(today), duration |-> cb.duration,
                        category |-> cb.category, taskId |-> cb.taskId])
         /\ IF cb.taskId # NoTask
            THEN incrementPomodoro(cb.taskId, cb.taskId)
            ELSE UNCHANGED taskVars
    ELSE UNCHANGED <<insightVars, taskVars>>

\* the interval callback of startTimerInternal
Tick ==
    /\ timerRef.live
    /\ IF remainingTime <= 1
       THEN /\ timerRef' = NoInterval
            /\ remainingTime' = 0
            /\ BeginComplete(timerRef.scope, timerRef.scope)
       ELSE /\ remainingTime' = remainingTime - 1
            /\ UNCHANGED <<timerRef, isPlaying, pendingComplete, completions,
                           focusExpiries>>
    /\ UNCHANGED <<mode, completedPomodoros, pendingAutoStart, widgetRemaining,
                   settingsVars, taskVars, insightVars, steps, afterReset>>
    /\ Render

\* CountdownCircleTimer: it counts its own time down while isPlaying and calls
\* onComplete, that is completePomodoro() of the current render, at 0.  It is
\* mounted anew, at remainingTime, when timerKey changes.  Nothing in the code
\* synchronises its clock with the interval of timerRef (a resumed interval
\* starts a whole second anew, the widget goes on from its fraction), so either
\* may reach 0 first.
WidgetTick ==
    /\ isPlaying
    /\ widgetRemaining > 0
    /\ widgetRemaining' = widgetRemaining - 1
    /\ IF widgetRemaining' = 0
       THEN BeginComplete(Scope(mode, remainingTime, completedPomodoros,
                                onPomodoroComplete),
                          startScope)
       ELSE UNCHANGED <<isPlaying, pendingComplete, completions, focusExpiries>>
    /\ UNCHANGED <<mode, completedPomodoros, remainingTime, timerRef,
                   pendingAutoStart, settingsVars, taskVars, insightVars,
                   steps, afterReset>>
    /\ Render

\* handleTimerComplete after its awaits (lines 284-321)
FinishComplete ==
    /\ pendingComplete # <<>>
    /\ LET h == Head(pendingComplete).h
           newCount == h.completedPomodoros + 1
       IN  /\ IF h.mode = "focus"
              THEN /\ completedPomodoros' = newCount
                   /\ InvokeCallback(h.onPomodoroComplete)
                   /\ mode' = NextMode(newCount)
              ELSE /\ mode' = "focus"
                   /\ UNCHANGED <<completedPomodoros, insightVars, taskVars>>
           /\ remainingTime' = getDuration(mode')
           /\ widgetRemaining' = remainingTime'
           /\ pendingAutoStart' =
                 IF settings.autoStartNext
                 THEN Append(pendingAutoStart, Head(pendingComplete).s)
                 ELSE pendingAutoStart
    /\ pendingComplete' = Tail(pendingComplete)
    /\ UNCHANGED <<isPlaying, timerRef, settingsVars, historyVars>>
    /\ Render

\* the timeout of line 303 / 315 fires
AutoStart ==
    /\ pendingAutoStart # <<>>
    /\ startTimerInternal(Head(pendingAutoStart))
    /\ pendingAutoStart' = Tail(pendingAutoStart)
    /\ UNCHANGED <<mode, completedPomodoros, remainingTime, pendingComplete,
                   widgetRemaining, settingsVars, taskVars, insightVars,
                   historyVars>>
    /\ Render

\* the play button (shown while not playing)
startTimer ==
    /\ ~isPlaying
    /\ startTimerInternal(startScope)
    /\ afterReset' = FALSE
    /\ UNCHANGED <<mode, completedPomodoros, remainingTime, pendingComplete,
                   pendingAutoStart, widgetRemaining, settingsVars, taskVars,
                   insightVars, focusExpiries, completions, steps>>
    /\ Render

\* pauseTimer up to its first await
pauseTimer ==
    /\ timerRef' = NoInterval
    /\ isPlaying' = FALSE
    /\ afterReset' = FALSE
    /\ UNCHANGED <<mode, completedPomodoros, remainingTime, pendingComplete,
                   pendingAutoStart, widgetRemaining, settingsVars, taskVars,
                   insightVars, focusExpiries, completions, steps>>
    /\ Render

\* the pause button (shown while playing)
PressPause == isPlaying /\ pauseTimer

resetTimer ==
    /\ timerRef' = NoInterval
    /\ isPlaying' = FALSE
    /\ remainingTime' = getDuration(mode)
    /\ widgetRemaining' = remainingTime'
    /\ afterReset' = FALSE
    /\ UNCHANGED <<mode, completedPomodoros, pendingComplete, pendingAutoStart,
                   settingsVars, taskVars, insightVars, focusExpiries,
                   completions, steps>>
    /\ Render

\* FocusScreen: the Reset Session button is rendered when sessionStarted
sessionStarted ==
    isPlaying \/ completedPomodoros > 0 \/ remainingTime < getDuration(mode)

resetSession ==
    /\ sessionStarted
    /\ timerRef' = NoInterval
    /\ completedPomodoros' = 0
    /\ mode' = "focus"
    /\ isPlaying' = FALSE
    /\ remainingTime' = getDuration("focus")
    /\ widgetRemaining' = remainingTime'
    /\ afterReset' = TRUE
    /\ UNCHANGED <<pendingComplete, pendingAutoStart, settingsVars, taskVars,
                   insightVars, focusExpiries, completions, steps>>
    /\ Render

\* a setTimeout(() => completeTask(id), 0) of incrementPomodoro fires
RunDeferred ==
    /\ deferred # <<>>
    /\ completeTask(tasks, archivedTasks, Head(deferred).id,
                    Head(deferred).currentTaskId)
    /\ deferred' = Tail(deferred)
    /\ UNCHANGED <<nextId, isPlaying, mode, completedPomodoros, remainingTime,
                   timerRef, pendingComplete, pendingAutoStart, widgetRemaining,
                   settingsVars, insightVars, historyVars>>
    /\ Render

\* a task as addTask creates it
NewTask(id, estimate, category, order) ==
    [id |-> id, category |-> category, pomodoroEstimate |-> estimate,
     pomodorosCompleted |-> 0, completed |-> FALSE, completedAt |-> "undefined",
     order |-> order]

\* what a handler of TaskContext leaves alone; the render that follows it
\* registers the callback of FocusScreen anew
TaskRender ==
    /\ UNCHANGED <<isPlaying, mode, completedPomodoros, remainingTime, timerRef,
                   pendingComplete, pendingAutoStart, widgetRemaining,
                   settingsVars, insightVars, historyVars>>
    /\ Render

\* the setTimeout(..., 0) of incrementPomodoro fires before the user's next
\* press: the handlers of TaskManagerScreen run with no completion deferred
NoneDeferred == deferred = <<>>

\* handleAddTask -> addTask(title, description, estimate, category); the id is
\* Date.now().toString(), a fresh one for every call
addTask(estimate, category) ==
    /\ NoneDeferred
    /\ nextId <= MaxTasks
    /\ tasks' = Append(tasks, NewTask(nextId, estimate, category, Len(tasks)))
    /\ nextId' = nextId + 1
    /\ UNCHANGED <<archivedTasks, currentTaskId, deferred>>
    /\ TaskRender

\* handleEditTask -> updateTask(editingTask.id, {pomodoroEstimate, category})
updateTask(id, estimate, category) ==
    /\ NoneDeferred
    /\ FindIndex(tasks, id) # 0
    /\ tasks' = [i \in 1..Len(tasks) |->
                    IF tasks[i].id = id
                    THEN [tasks[i] EXCEPT !.pomodoroEstimate = estimate,
                                          !.category = category]
                    ELSE tasks[i]]
    /\ UNCHANGED <<archivedTasks, currentTaskId, deferred, nextId>>
    /\ TaskRender

\* handleDeleteTask -> deleteTask(taskId), for a row of the active list
deleteTask(id) ==
    /\ NoneDeferred
    /\ FindIndex(tasks, id) # 0
    /\ tasks' = Without(tasks, id)
    /\ currentTaskId' = IF currentTaskId = id THEN NoTask ELSE currentTaskId
    /\ UNCHANGED <<archivedTasks, deferred, nextId>>
    /\ TaskRender

\* the check button of a row of the active list: completeTask(item.id)
PressComplete(id) ==
    /\ NoneDeferred
    /\ FindIndex(tasks, id) # 0
    /\ completeTask(tasks, archivedTasks, id, currentTaskId)
    /\ UNCHANGED <<deferred, nextId>>
    /\ TaskRender

\* the select button of a row: setCurrentTaskId(isSelected ? null : item.id)
setCurrentTaskId(id) ==
    /\ NoneDeferred
    /\ FindIndex(tasks, id) # 0
    /\ currentTaskId' = IF currentTaskId = id THEN NoTask ELSE id
    /\ UNCHANGED <<tasks, archivedTasks, deferred, nextId>>
    /\ TaskRender

\* reorderTasks(reorderedTasks): every task gets its index as order
reorderTasks(reorderedTasks) ==
    /\ tasks' = [i \in 1..Len(reorderedTasks) |->
                    [reorderedTasks[i] EXCEPT !.order = i - 1]]
    /\ UNCHANGED <<archivedTasks, currentTaskId, deferred, nextId>>

\* handleMoveUp(index), with index counted from 1: the row swaps with the one
\* above it; handleMoveDown(index) is handleMoveUp(index + 1)
handleMoveUp(index) ==
    /\ NoneDeferred
    /\ index > 1
    /\ index <= Len(tasks)
    /\ reorderTasks([tasks EXCEPT ![index - 1] = tasks[index],
                                  ![index] = tasks[index - 1]])
    /\ TaskRender

\* a restored task that keeps its count
RestoredWithCount(t) ==
    [t EXCEPT !.completed = FALSE, !.completedAt = "undefined", !.order = Len(tasks)]

\* the task restoreTask appends to the active list
RestoredTask(t) ==
    [t EXCEPT !.completed = FALSE, !.completedAt = "undefined",
              !.pomodorosCompleted = 0, !.order = Len(tasks)]

\* restoreTask(id)
restoreTask(id) ==
    /\ NoneDeferred
    /\ IF FindIndex(archivedTasks, id) = 0
       THEN UNCHANGED <<tasks, archivedTasks>>
       ELSE /\ tasks' = Append(tasks,
                               RestoredTask(archivedTasks[FindIndex(archivedTasks, id)]))
            /\ archivedTasks' = Without(archivedTasks, id)
    /\ UNCHANGED <<currentTaskId, deferred, nextId>>
    /\ TaskRender

\* handleClearArchive -> clearArchive()
clearArchive ==
    /\ NoneDeferred
    /\ archivedTasks # <<>>
    /\ archivedTasks' = <<>>
    /\ UNCHANGED <<tasks, currentTaskId, deferred, nextId>>
    /\ TaskRender

\* a completion callback registered while the task id was current calls
\* incrementPomodoro(id); it may be a callback of an earlier render
CallbackIncrement(id) ==
    /\ \A i \in 1..Len(tasks) :
          tasks[i].id = id => tasks[i].pomodorosCompleted < MaxPomodoros
    /\ incrementPomodoro(id, id)
    /\ TaskRender

\* The timer after mount, with the settings and the task list that were stored.
\* startTimerInternal is the one of the first render, in which no callback is
\* registered yet, unless loading the stored settings re-created it.
InitTimer ==
    /\ \E auto \in BOOLEAN :
          settings = [workDuration |-> 2, shortBreakDuration |-> 1,
                      longBreakDuration |-> 3, autoStartNext |-> auto,
                      pomodorosUntilLongBreak |-> 2, ambientSound |-> "none"]
    /\ storedSettings = settings
    /\ settingsLoaded = TRUE
    /\ inputValue = <<>>
    /\ tasks \in {<<>>, <<NewTask(1, 2, "study", 0)>>}
    /\ archivedTasks = <<>>
    /\ currentTaskId \in {NoTask} \cup {tasks[i].id : i \in 1..Len(tasks)}
    /\ deferred = <<>>
    /\ nextId = Len(tasks) + 1
    /\ sessions = <<>>
    /\ selectedCategory = "work"
    /\ currentStreak = 0
    /\ bestStreak = 0
    /\ today = 0
    /\ isPlaying = FALSE
    /\ mode = "focus"
    /\ completedPomodoros = 0
    /\ remainingTime = settings.workDuration * TicksPerMinute
    /\ onPomodoroComplete =
          RegisteredCallback(mode, tasks, currentTaskId, selectedCategory)
    /\ timerRef = NoInterval
    /\ startScope \in {Scope(mode, remainingTime, completedPomodoros, NoCallback),
                       Scope(mode, remainingTime, completedPomodoros, onPomodoroComplete)}
    /\ pendingComplete = <<>>
    /\ pendingAutoStart = <<>>
    /\ widgetRemaining = remainingTime
    /\ focusExpiries = 0
    /\ completions = 0
    /\ steps = 0
    /\ afterReset = FALSE
    /\ IdleDevice

NextTimer ==
    \/ Tick /\ UNCHANGED deviceVars
    \/ WidgetTick /\ UNCHANGED deviceVars
    \/ FinishComplete /\ UNCHANGED deviceVars
    \/ AutoStart /\ UNCHANGED deviceVars
    \/ startTimer /\ UNCHANGED deviceVars
    \/ PressPause /\ UNCHANGED deviceVars
    \/ resetTimer /\ UNCHANGED deviceVars
    \/ resetSession /\ UNCHANGED deviceVars
    \/ RunDeferred /\ UNCHANGED deviceVars

SpecTimer == InitTimer /\ [][NextTimer]_vars

\* no completion is suspended at its awaits and no timeout is waiting
Quiet == pendingComplete = <<>> /\ pendingAutoStart = <<>> /\ deferred = <<>>

\* the behaviours of SpecTimer in which the user presses no button during the
\* fraction of a second that a completion or a timeout is outstanding
NextQuiet ==
    \/ Tick /\ UNCHANGED deviceVars
    \/ WidgetTick /\ UNCHANGED deviceVars
    \/ FinishComplete /\ UNCHANGED deviceVars
    \/ AutoStart /\ UNCHANGED deviceVars
    \/ RunDeferred /\ UNCHANGED deviceVars
    \/ Quiet /\ startTimer /\ UNCHANGED deviceVars
    \/ Quiet /\ PressPause /\ UNCHANGED deviceVars
    \/ Quiet /\ resetTimer /\ UNCHANGED deviceVars
    \/ Quiet /\ resetSession /\ UNCHANGED deviceVars

SpecTimerQuiet == InitTimer /\ [][NextQuiet]_vars

\* The task manager after mount on a fresh install; the timer stays idle.
InitTasks ==
    /\ settings = defaultSettings
    /\ storedSettings = settings
    /\ settingsLoaded = TRUE
    /\ inputValue = <<>>
    /\ tasks = <<>>
    /\ archivedTasks = <<>>
    /\ currentTaskId = NoTask
    /\ deferred = <<>>
    /\ nextId = 1
    /\ sessions = <<>>
    /\ selectedCategory = "work"
    /\ currentStreak = 0
    /\ bestStreak = 0
    /\ today = 0
    /\ isPlaying = FALSE
    /\ mode = "focus"
    /\ completedPomodoros = 0
    /\ remainingTime = settings.workDuration * TicksPerMinute
    /\ onPomodoroComplete =
          RegisteredCallback(mode, tasks, currentTaskId, selectedCategory)
    /\ timerRef = NoInterval
    /\ startScope = Scope(mode, remainingTime, completedPomodoros, NoCallback)
    /\ pendingComplete = <<>>
    /\ pendingAutoStart = <<>>
    /\ widgetRemaining = remainingTime
    /\ focusExpiries = 0
    /\ completions = 0
    /\ steps = 0
    /\ afterReset = FALSE
    /\ IdleDevice

TaskIds == 1..MaxTasks
Estimates == 1..MaxEstimate

NextTasks ==
    \/ \E estimate \in Estimates, category \in Categories :
          addTask(estimate, category) /\ UNCHANGED deviceVars
    \/ \E id \in TaskIds, estimate \in Estimates, category \in Categories :
          updateTask(id, estimate, category) /\ UNCHANGED deviceVars
    \/ \E id \in TaskIds : deleteTask(id) /\ UNCHANGED deviceVars
    \/ \E id \in TaskIds : PressComplete(id) /\ UNCHANGED deviceVars
    \/ \E id \in TaskIds : setCurrentTaskId(id) /\ UNCHANGED deviceVars
    \/ \E index \in 1..MaxTasks : handleMoveUp(index) /\ UNCHANGED deviceVars
    \/ \E id \in TaskIds : restoreTask(id) /\ UNCHANGED deviceVars
    \/ clearArchive /\ UNCHANGED deviceVars
    \/ \E id \in TaskIds : CallbackIncrement(id) /\ UNCHANGED deviceVars
    \/ RunDeferred /\ UNCHANGED deviceVars

SpecTasks == InitTasks /\ [][NextTasks]_vars

----------------------------------------------------------------------------
(* Claims about the timer *)

\* the completion that FinishComplete processes
Completing == Head(pendingComplete)

\* C1: every completion of a running Focus interval takes completedPomodoros
\* from n - 1 to n and enters LongBreak if n % pomodorosUntilLongBreak = 0 and
\* ShortBreak otherwise.
C1_FocusCompletionCounts ==
    [][(FinishComplete /\ Completing.running /\ Completing.at = "focus"
           /\ mode = "focus")
        => /\ completedPomodoros' = completedPomodoros + 1
           /\ mode' = IF completedPomodoros' % settings.pomodorosUntilLongBreak = 0
                      THEN "longBreak" ELSE "shortBreak"]_vars

\* C2: each expiry of a running Focus timer is processed as exactly one
\* completion: once no completion is in progress, the log holds one
\* FocusSession of workDuration minutes per expiry.
C2_OneSessionPerExpiry ==
    pendingComplete = <<>> =>
        /\ Len(sessions) = focusExpiries
        /\ \A i \in 1..Len(sessions) : sessions[i].duration = settings.workDuration

\* C3: the completion of a running break interval enters Focus with the full
\* Focus duration, leaves completedPomodoros alone and does not invoke the
\* completion callback (no session is appended, no task changes).
C3_BreakCompletion ==
    [][(FinishComplete /\ Completing.running /\ Completing.at # "focus"
           /\ mode = Completing.at)
        => /\ mode' = "focus"
           /\ remainingTime' = settings.workDuration * TicksPerMinute
           /\ completedPomodoros' = completedPomodoros
           /\ sessions' = sessions
           /\ tasks' = tasks]_vars

\* C4: after resetSession, and until the next user action, completedPomodoros
\* is 0, the mode is Focus, the timer is paused and shows the Focus duration.
C4_ResetSessionHolds ==
    afterReset =>
        /\ completedPomodoros = 0
        /\ mode = "focus"
        /\ ~isPlaying
        /\ remainingTime = settings.workDuration * TicksPerMinute

----------------------------------------------------------------------------
(* The insights: a stored session log, the days passing *)

Days == 0..LastDay

\* a session as the completion callback records it on a day
SessionOn(day) ==
    [date |-> getDateString(day), duration |-> defaultSettings.workDuration,
     category |-> "work", taskId |-> NoTask]

\* the session logs of at most MaxSessions sessions on the days of the window
Logs ==
    UNION {[1..n -> {SessionOn(day) : day \in Days}] : n \in 0..MaxSessions}

\* a Focus interval completes today: the callback calls addSession
RecordSession ==
    /\ Len(sessions) < MaxSessions
    /\ addSession(SessionOn(today))
    /\ UNCHANGED <<timerVars, settingsVars, taskVars, historyVars>>

\* clearAllData
clearAllData ==
    /\ sessions # <<>>
    /\ sessions' = <<>>
    /\ currentStreak' = 0
    /\ bestStreak' = 0
    /\ UNCHANGED <<selectedCategory, today, timerVars, settingsVars, taskVars,
                   historyVars>>

\* midnight (UTC) passes: nothing of the state is recomputed
NextDay ==
    /\ today < LastDay
    /\ today' = today + 1
    /\ UNCHANGED <<sessions, selectedCategory, currentStreak, bestStreak,
                   timerVars, settingsVars, taskVars, historyVars>>

\* after loadData: the stored log, and the streaks calculateStreaks gives it
InitStreak ==
    /\ sessions \in Logs
    /\ today \in Days
    /\ currentStreak = calculateStreaks(sessions, today).current
    /\ bestStreak = calculateStreaks(sessions, today).best
    /\ selectedCategory = "work"
    /\ settings = defaultSettings
    /\ storedSettings = settings
    /\ settingsLoaded = TRUE
    /\ inputValue = <<>>
    /\ tasks = <<>>
    /\ archivedTasks = <<>>
    /\ currentTaskId = NoTask
    /\ deferred = <<>>
    /\ nextId = 1
    /\ isPlaying = FALSE
    /\ mode = "focus"
    /\ completedPomodoros = 0
    /\ remainingTime = settings.workDuration * TicksPerMinute
    /\ onPomodoroComplete =
          RegisteredCallback(mode, tasks, currentTaskId, selectedCategory)
    /\ timerRef = NoInterval
    /\ startScope = Scope(mode, remainingTime, completedPomodoros, NoCallback)
    /\ pendingComplete = <<>>
    /\ pendingAutoStart = <<>>
    /\ widgetRemaining = remainingTime
    /\ focusExpiries = 0
    /\ completions = 0
    /\ steps = 0
    /\ afterReset = FALSE
    /\ IdleDevice

NextStreak ==
    \/ RecordSession /\ UNCHANGED deviceVars
    \/ clearAllData /\ UNCHANGED deviceVars
    \/ NextDay /\ UNCHANGED deviceVars

SpecStreak == InitStreak /\ [][NextStreak]_vars

----------------------------------------------------------------------------
(* The settings: SettingsContext and the duration rows of SettingsScreen *)

\* what a handler of the settings leaves alone; getDuration and the callback
\* of FocusScreen are made anew for the new settings
SettingsRender ==
    /\ UNCHANGED <<isPlaying, mode, completedPomodoros, remainingTime, timerRef,
                   pendingComplete, pendingAutoStart, widgetRemaining, taskVars,
                   insightVars, focusExpiries, completions, afterReset>>
    /\ Render

\* the effect on [settings, isLoaded]: saveSettings() once isLoaded
saveSettings == storedSettings' = IF settingsLoaded' THEN settings' ELSE storedSettings

\* updateTimerSettings({[key]: val})
updateTimerSettings(key, val) ==
    /\ settings' = [settings EXCEPT ![key] = val]
    /\ UNCHANGED settingsLoaded
    /\ saveSettings

\* loadSettings() of the mount effect resolves
loadSettings ==
    /\ ~settingsLoaded
    /\ settings' = IF storedSettings = NoData THEN settings ELSE storedSettings
    /\ settingsLoaded' = TRUE
    /\ saveSettings
    /\ UNCHANGED <<inputValue, steps>>
    /\ SettingsRender

\* SettingsScreen mounts: each DurationRow starts with useState(value.toString())
MountSettingsScreen ==
    /\ inputValue = <<>>
    /\ inputValue' = [row \in Rows |-> toString(settings[row])]
    /\ UNCHANGED <<settings, storedSettings, settingsLoaded, steps>>
    /\ SettingsRender

\* the bounds of one behaviour: edits are counted, a mounted screen is needed
Editing == inputValue # <<>> /\ steps < MaxEdits

\* onChangeText of the TextInput of a row
onChangeText(row, text) ==
    /\ Editing
    /\ inputValue' = [inputValue EXCEPT ![row] = text]
    /\ steps' = steps + 1
    /\ UNCHANGED <<settings, storedSettings, settingsLoaded>>
    /\ SettingsRender

\* a bound from above only
ClampAbove(num) == Min(MaxDuration, num)

\* the number handleBlur keeps between the bounds
Clamp(num) == Max(MinDuration, Min(MaxDuration, num))

\* handleBlur of a row
handleBlur(row) ==
    /\ Editing
    /\ LET parsed == parseInt(inputValue[row])
           num == Clamp(IF parsed.nan THEN settings[row] ELSE parsed.num)
       IN  /\ inputValue' = [inputValue EXCEPT ![row] = toString(num)]
           /\ updateTimerSettings(row, num)
    /\ steps' = steps + 1
    /\ SettingsRender

\* the minus button of a row
PressMinus(row) ==
    /\ Editing
    /\ LET newVal == Max(MinDuration, settings[row] - 1)
       IN  /\ inputValue' = [inputValue EXCEPT ![row] = toString(newVal)]
           /\ updateTimerSettings(row, newVal)
    /\ steps' = steps + 1
    /\ SettingsRender

\* the plus button of a row
PressPlus(row) ==
    /\ Editing
    /\ LET newVal == Min(MaxDuration, settings[row] + 1)
       IN  /\ inputValue' = [inputValue EXCEPT ![row] = toString(newVal)]
           /\ updateTimerSettings(row, newVal)
    /\ steps' = steps + 1
    /\ SettingsRender

\* the toggle "Auto-start": updateTimerSettings({autoStartNext: !autoStartNext})
ToggleAutoStart ==
    /\ Editing
    /\ updateTimerSettings("autoStartNext", ~settings.autoStartNext)
    /\ steps' = steps + 1
    /\ UNCHANGED inputValue
    /\ SettingsRender

\* the app is closed and launched again: the providers mount with the
\* defaults, what was saved stays in AsyncStorage
Relaunch ==
    /\ settingsLoaded
    /\ settings' = defaultSettings
    /\ settingsLoaded' = FALSE
    /\ inputValue' = <<>>
    /\ UNCHANGED <<storedSettings, steps>>
    /\ SettingsRender

\* texts typed into a duration field
Texts == {<<>>, <<"0">>, <<"2", "0", "0">>, <<"-", "3">>, <<"7", "x">>, <<"x">>}

\* first launch: the defaults, nothing saved, loadSettings() outstanding
InitSettings ==
    /\ settings = defaultSettings
    /\ storedSettings = NoData
    /\ settingsLoaded = FALSE
    /\ inputValue = <<>>
    /\ tasks = <<>>
    /\ archivedTasks = <<>>
    /\ currentTaskId = NoTask
    /\ deferred = <<>>
    /\ nextId = 1
    /\ sessions = <<>>
    /\ selectedCategory = "work"
    /\ currentStreak = 0
    /\ bestStreak = 0
    /\ today = 0
    /\ isPlaying = FALSE
    /\ mode = "focus"
    /\ completedPomodoros = 0
    /\ remainingTime = settings.workDuration * TicksPerMinute
    /\ onPomodoroComplete =
          RegisteredCallback(mode, tasks, currentTaskId, selectedCategory)
    /\ timerRef = NoInterval
    /\ startScope = Scope(mode, remainingTime, completedPomodoros, NoCallback)
    /\ pendingComplete = <<>>
    /\ pendingAutoStart = <<>>
    /\ widgetRemaining = remainingTime
    /\ focusExpiries = 0
    /\ completions = 0
    /\ steps = 0
    /\ afterReset = FALSE
    /\ IdleDevice

NextSettings ==
    \/ loadSettings /\ UNCHANGED deviceVars
    \/ MountSettingsScreen /\ UNCHANGED deviceVars
    \/ \E row \in Rows, text \in Texts : onChangeText(row, text) /\ UNCHANGED deviceVars
    \/ \E row \in Rows : handleBlur(row) /\ UNCHANGED deviceVars
    \/ \E row \in Rows : PressMinus(row) /\ UNCHANGED deviceVars
    \/ \E row \in Rows : PressPlus(row) /\ UNCHANGED deviceVars
    \/ ToggleAutoStart /\ UNCHANGED deviceVars
    \/ Relaunch /\ UNCHANGED deviceVars

SpecSettings == InitSettings /\ [][NextSettings]_vars

----------------------------------------------------------------------------
(* Claims about the task lists *)

\* positions of the task id in a list
Occurrences(list, id) == {i \in 1..Len(list) : list[i].id = id}

\* the task id is active and one pomodoro short of its estimate
OneShortOfEstimate(id) ==
    /\ FindIndex(tasks, id) # 0
    /\ tasks[FindIndex(tasks, id)].pomodorosCompleted
          = tasks[FindIndex(tasks, id)].pomodoroEstimate - 1

\* what a deferred completeTask(id) does in a step
MovedOnce(id) ==
    IF FindIndex(tasks, id) # 0
    THEN /\ Occurrences(tasks', id) = {}
         /\ Cardinality(Occurrences(archivedTasks', id)) = 1
         /\ LET moved == archivedTasks'[FindIndex(archivedTasks', id)]
                before == tasks[FindIndex(tasks, id)]
            IN /\ moved.completed = TRUE
               /\ moved.completedAt = "now"
               /\ moved.pomodorosCompleted = before.pomodorosCompleted
               /\ moved.pomodoroEstimate = before.pomodoroEstimate
    ELSE tasks' = tasks /\ archivedTasks' = archivedTasks

\* C5: incrementPomodoro(id) on an active task one pomodoro short of its
\* estimate stores the estimate as its count and schedules its completion; a
\* scheduled completion of a task that is still active removes it from the
\* active list and leaves it exactly once in the archive, completed, with
\* completedAt set and the count it had; a scheduled completion of a task
\* that is no longer active, as the second of two scheduled for one id, moves
\* nothing.
C5_IncrementArchivesOnce ==
    [][/\ \A id \in TaskIds :
            (CallbackIncrement(id) /\ OneShortOfEstimate(id)) =>
                /\ tasks'[FindIndex(tasks, id)].pomodorosCompleted
                      = tasks[FindIndex(tasks, id)].pomodoroEstimate
                /\ \E k \in 1..Len(deferred') : deferred'[k].id = id
       /\ RunDeferred => MovedOnce(Head(deferred).id)]_vars

\* a task was moved to the archive by the first of two completions scheduled
\* for it, and the second is still to run
C5_Witness ==
    /\ deferred # <<>>
    /\ Occurrences(tasks, Head(deferred).id) = {}
    /\ Cardinality(Occurrences(archivedTasks, Head(deferred).id)) = 1
    /\ LET moved == archivedTasks[FindIndex(archivedTasks, Head(deferred).id)]
       IN moved.completed /\ moved.pomodorosCompleted > moved.pomodoroEstimate

\* C6: with no completion deferred, no active task has reached its estimate.
C6_NoActiveTaskAtEstimate ==
    NoneDeferred =>
        \A i \in 1..Len(tasks) : tasks[i].pomodorosCompleted < tasks[i].pomodoroEstimate

\* C7: no id is in both lists, and none is twice in a list.
C7_ListsDisjoint ==
    \A id \in TaskIds :
        Cardinality(Occurrences(tasks, id)) + Cardinality(Occurrences(archivedTasks, id)) <= 1

\* every task was created; one that reached its estimate heads the archive
\* while an older one is active, last in its list
C7_Witness ==
    /\ nextId > MaxTasks
    /\ Len(tasks) >= 1
    /\ Len(archivedTasks) >= 1
    /\ tasks[Len(tasks)].order = Len(tasks) - 1
    /\ tasks[Len(tasks)].id < archivedTasks[1].id
    /\ archivedTasks[1].pomodorosCompleted >= archivedTasks[1].pomodoroEstimate

\* what restoreTask(id) does in a step
Restored(id) ==
    IF FindIndex(archivedTasks, id) # 0
    THEN LET at == FindIndex(archivedTasks, id)
             last == tasks'[Len(tasks')]
         IN /\ Len(tasks') = Len(tasks) + 1
            /\ SubSeq(tasks', 1, Len(tasks)) = tasks
            /\ last.id = id
            /\ last.pomodorosCompleted = 0
            /\ last.completed = FALSE
            /\ last.completedAt = "undefined"
            /\ last.pomodoroEstimate = archivedTasks[at].pomodoroEstimate
            /\ last.category = archivedTasks[at].category
            /\ Len(archivedTasks') = Len(archivedTasks) - 1
            /\ \A k \in 1..Len(archivedTasks') :
                  archivedTasks'[k] = IF k < at THEN archivedTasks[k]
                                               ELSE archivedTasks[k + 1]
    ELSE tasks' = tasks /\ archivedTasks' = archivedTasks

\* C8: restoreTask(id) of an archived task takes it out of the archive and
\* appends it to the active list with pomodorosCompleted 0, completed false
\* and completedAt cleared, every other task staying as and where it was; for
\* an id that is not archived it changes neither list.
C8_RestoreTask ==
    [][\A id \in TaskIds : restoreTask(id) => Restored(id)]_vars

\* a restored task, last in the active list behind a task with progress, with
\* the order restoreTask gave it
C8_Witness ==
    /\ Len(tasks) = 2
    /\ archivedTasks = <<>>
    /\ tasks[2].id < tasks[1].id
    /\ tasks[2].order = tasks[1].order
    /\ tasks[2].pomodorosCompleted = 0
    /\ tasks[1].pomodorosCompleted > 0

----------------------------------------------------------------------------
(* Claims about the streaks *)

\* the days of the calendar on which the log has a session
SessionDays == {day \in -1..(LastDay + 1) : \E i \in 1..Len(sessions) :
                    sessions[i].date = getDateString(day)}

\* the length of the run of consecutive days of D that ends on day
RunEndingOn(D, day) ==
    CHOOSE k \in 0..Cardinality(D) :
        /\ \A j \in 0..(k - 1) : day - j \in D
        /\ day - k \notin D

\* the length of the longest run of consecutive days of D
LongestRun(D) ==
    IF D = {} THEN 0
    ELSE CHOOSE k \in 1..Cardinality(D) :
            /\ \E day \in D : RunEndingOn(D, day) = k
            /\ \A day \in D : RunEndingOn(D, day) <= k

\* the most recent day of D
MostRecent(D) == CHOOSE day \in D : \A other \in D : other <= day

\* C9: for every session log and every today, calculateStreaks returns as
\* best the length of the longest run of consecutive days with a session, and
\* as current the length of the run that ends on the most recent day with a
\* session when that day is today or yesterday, and 0 otherwise.
C9_Streaks ==
    /\ calculateStreaks(sessions, today).best = LongestRun(SessionDays)
    /\ calculateStreaks(sessions, today).current =
          IF SessionDays # {} /\ MostRecent(SessionDays) \in {today, today - 1}
          THEN RunEndingOn(SessionDays, MostRecent(SessionDays))
          ELSE 0

\* sessions on today and the two days before it, across the end of a month:
\* current 3, best 3
C9_Witness ==
    /\ getDateString(today) = <<2, 1>>
    /\ SessionDays = {today, today - 1, today - 2}
    /\ calculateStreaks(sessions, today).current = 3
    /\ calculateStreaks(sessions, today).best >= 3
    /\ currentStreak = 3

----------------------------------------------------------------------------
(* Claims about the settings *)

\* the three durations of a settings record are integers of 1..90
DurationsInRange(record) == \A row \in Rows : record[row] \in 1..90

\* C10: the durations in the settings, and in what is saved of them, are
\* integers of 1..90 at all times; and a typed text that parses to a number
\* v is committed as min(90, max(1, v)).
C10_DurationsClamped ==
    /\ [](DurationsInRange(settings)
            /\ (storedSettings # NoData => DurationsInRange(storedSettings)))
    /\ [][\A row \in Rows :
            (handleBlur(row) /\ ~parseInt(inputValue[row]).nan) =>
                settings'[row] = Min(90, Max(1, parseInt(inputValue[row]).num))]_vars

\* "200" was typed into the work row and "0" into the short-break row, both
\* were committed: 90 and 1 are in the settings and saved
C10_Witness ==
    /\ steps = 4
    /\ settings.workDuration = 90
    /\ settings.shortBreakDuration = 1
    /\ storedSettings # NoData
    /\ storedSettings.workDuration = 90
    /\ storedSettings.shortBreakDuration = 1
    /\ inputValue # <<>>
    /\ inputValue.workDuration = <<"9", "0">>
    /\ inputValue.shortBreakDuration = <<"1">>


----------------------------------------------------------------------------
(* The timer on the device: the wall clock, the app's state, the persisted *)
(* snapshot, the scheduled notifications, the ambient sound and the        *)
(* handlers of PomodoroContext.tsx with their awaits.  A handler runs up   *)
(* to its first await in the step of the event; each later piece runs in a *)
(* step of its own when the awaited native call resolves.  A native call    *)
(* takes effect when it is issued.                                         *)

\* seconds of wall-clock time in one behaviour
MaxClock == 4
\* presses, notification answers, app-state changes and relaunches in one
\* behaviour
MaxEvents == 3
\* handlers suspended at an await at one time
MaxPending == 2
\* notifications scheduled in one behaviour
MaxNotifications == 3

\* the scope of the first render, which the functions handed out by the mount
\* effect (handleAppStateChange, loadTimerState) read for the life of the process
mountScope == [isPlaying |-> FALSE, mode |-> "focus", settings |-> defaultSettings]

\* getDuration of a render whose settings.timer is t
getDurationIn(t, m) ==
    CASE m = "focus" -> t.workDuration * TicksPerMinute
      [] m = "shortBreak" -> t.shortBreakDuration * TicksPerMinute
      [] m = "longBreak" -> t.longBreakDuration * TicksPerMinute

\* a snapshot that is stamped with the time of the save in either state
TimerStateStamped ==
    [stored |-> TRUE, mode |-> mode, remainingTime |-> remainingTime,
     isPlaying |-> isPlaying, completedPomodoros |-> completedPomodoros,
     startedAt |-> startTimeRef, pausedAt |-> <<now>>]

\* the object saveTimerState writes
TimerState ==
    [stored |-> TRUE, mode |-> mode, remainingTime |-> remainingTime,
     isPlaying |-> isPlaying, completedPomodoros |-> completedPomodoros,
     startedAt |-> IF isPlaying THEN startTimeRef ELSE null,
     pausedAt |-> IF ~isPlaying THEN <<now>> ELSE null]

\* effects that would store the values of the render before (not the save
\* effect of the code)
DeviceRenderStale ==
    /\ timerSnapshot' =
          IF timerLoaded' /\ <<mode, remainingTime, isPlaying, completedPomodoros,
                               timerLoaded>>' #
                             <<mode, remainingTime, isPlaying, completedPomodoros,
                               timerLoaded>>
          THEN TimerState ELSE timerSnapshot
    /\ listenerScope' =
          IF completedPomodoros' # completedPomodoros \/ settings' # settings
          THEN startScope' ELSE listenerScope

\* The effects of the render that ends a step of the device specification: the
\* save effect, and the effect that hands the notification service a listener
\* calling the startTimerInternal of this render.
DeviceRender ==
    /\ timerSnapshot' =
          IF timerLoaded' /\ <<mode, remainingTime, isPlaying, completedPomodoros,
                               timerLoaded>>' #
                             <<mode, remainingTime, isPlaying, completedPomodoros,
                               timerLoaded>>
          THEN TimerState' ELSE timerSnapshot
    /\ listenerScope' =
          IF completedPomodoros' # completedPomodoros \/ settings' # settings
          THEN startScope' ELSE listenerScope

\* startTimeRef.current as the startTimerInternal of scope s sets it
StartTime(s) == <<now - (getDuration(s.mode) - s.remainingTime)>>

\* the notifications left after cancelNotification(id.current), if id is set
Cancelled(id) == {n \in scheduled : <<n.id>> # id}

\* handleTimerComplete up to its first await, beyond BeginComplete
CompleteBegins ==
    /\ startTimeRef' = null
    /\ scheduled' = Cancelled(notificationIdRef)

\* The step calls handler h, which is suspended at an await (running) or has
\* run to its end.  ops keeps h after the call before it, if that call has run
\* to its end with no other step since.
Called(h, running) ==
    /\ events.n < MaxEvents
    /\ events' = [n |-> events.n + 1,
                  ops |-> (IF events.running \/ events.ops = <<>> THEN <<>>
                           ELSE <<events.ops[Len(events.ops)]>>) \o <<h>>,
                  running |-> running]

\* a step that is not part of the handler called last
Elapsed == events' = [events EXCEPT !.ops = <<>>, !.running = FALSE]

\* a step the app takes by itself that is worth telling from the others
Happened(h) == events' = [events EXCEPT !.ops = <<h>>, !.running = FALSE]

\* the suspended handler i goes on, and finishes if done
Resumed(i, done) ==
    IF events.running /\ i = Len(pendingOps)
    THEN events' = [events EXCEPT !.running = ~done]
    ELSE Elapsed

\* a second of wall-clock time; a notification that is due is delivered first
SecondPasses ==
    /\ now < MaxClock
    /\ \A n \in scheduled : n.due > now
    /\ now' = now + 1

\* the second on which the interval of timerRef fires
TickSecond ==
    /\ timerLoaded
    /\ SecondPasses
    /\ Tick
    /\ IF remainingTime <= 1
       THEN CompleteBegins
       ELSE UNCHANGED <<startTimeRef, scheduled>>
    /\ UNCHANGED <<appState, notificationIdRef, userWantsAmbient, timerLoaded,
                   isAmbientPlaying, audioAmbient, delivered, nextNotification,
                   pendingOps>>
    /\ DeviceRender
    /\ Elapsed

\* a second on which no interval fires: none is live, or the app is in the
\* background and its timers are suspended
IdleSecond ==
    /\ SecondPasses
    /\ ~timerRef.live \/ appState = "background"
    /\ UNCHANGED <<timerVars, settingsVars, taskVars, insightVars, historyVars,
                   appState, startTimeRef, notificationIdRef, userWantsAmbient,
                   timerLoaded, isAmbientPlaying, audioAmbient, timerSnapshot,
                   scheduled, delivered, nextNotification, pendingOps,
                   listenerScope>>
    /\ Elapsed

\* handleTimerComplete after its awaits: cancelNotification, playAlarmSound,
\* stopAmbientSound and sendImmediateNotification have resolved
CompleteResumes ==
    /\ FinishComplete
    /\ notificationIdRef' =
          IF Head(pendingComplete).id # null THEN null ELSE notificationIdRef
    /\ audioAmbient' = "none"
    /\ isAmbientPlaying' = FALSE
    /\ UNCHANGED <<now, appState, startTimeRef, userWantsAmbient, timerLoaded,
                   scheduled, delivered, nextNotification, pendingOps>>
    /\ DeviceRender
    /\ Elapsed

\* setTimeout(() => startTimerInternal(), 100) fires
AutoStartFires ==
    /\ pendingAutoStart # <<>>
    /\ AutoStart
    /\ startTimeRef' = StartTime(Head(pendingAutoStart))
    /\ UNCHANGED <<now, appState, notificationIdRef, userWantsAmbient,
                   timerLoaded, isAmbientPlaying, audioAmbient, scheduled,
                   delivered, nextNotification, pendingOps>>
    /\ DeviceRender
    /\ Elapsed

\* a handler suspended at the await of the native call at; id is the
\* notification the call is about, m and r the mode and remainingTime the
\* handler's closure reads
Op(op, at, id, m, r) ==
    [op |-> op, at |-> at, id |-> id, mode |-> m, remainingTime |-> r]

Suspend(op, at, id) == Append(pendingOps, Op(op, at, id, mode, remainingTime))
Drop(i) == [j \in 1..(Len(pendingOps) - 1) |->
               IF j < i THEN pendingOps[j] ELSE pendingOps[j + 1]]
Move(i, at, id) == [pendingOps EXCEPT ![i].at = at, ![i].id = id]

\* scheduleTimerCompleteNotification(m, delay): the request the system keeps
Notification(m, delay) == [id |-> nextNotification, due |-> now + delay, mode |-> m]

\* a step that changes no React state of the timer nor anything outside it
TimerStateKept ==
    UNCHANGED <<timerVars, settingsVars, taskVars, insightVars, historyVars>>

\* startTimer up to its first await
startTimerBegins ==
    /\ Called("startTimer", TRUE)
    /\ timerLoaded
    /\ Len(pendingOps) < MaxPending
    /\ startTimer
    /\ startTimeRef' = StartTime(startScope)
    /\ IF userWantsAmbient /\ mode = "focus" /\ settings.ambientSound # "none"
       THEN /\ pendingOps' = Suspend("startTimer", "playAmbientSound", null)
            /\ UNCHANGED <<scheduled, nextNotification>>
       ELSE /\ nextNotification <= MaxNotifications
            /\ scheduled' = scheduled \cup {Notification(mode, remainingTime)}
            /\ nextNotification' = nextNotification + 1
            /\ pendingOps' = Suspend("startTimer", "schedule", <<nextNotification>>)
    /\ UNCHANGED <<now, appState, notificationIdRef, userWantsAmbient,
                   timerLoaded, isAmbientPlaying, audioAmbient, delivered>>
    /\ DeviceRender

\* startTimer after playAmbientSound, and after scheduleTimerCompleteNotification
startTimerResumes ==
    /\ \E i \in 1..Len(pendingOps) :
          LET op == pendingOps[i] IN
          /\ op.op = "startTimer"
          /\ IF op.at = "playAmbientSound"
             THEN /\ nextNotification <= MaxNotifications
                  /\ \E success \in BOOLEAN :
                        /\ isAmbientPlaying' = success
                        /\ audioAmbient' = IF success THEN "playing" ELSE "none"
                  /\ scheduled' = scheduled \cup {Notification(op.mode, op.remainingTime)}
                  /\ nextNotification' = nextNotification + 1
                  /\ pendingOps' = Move(i, "schedule", <<nextNotification>>)
                  /\ Resumed(i, FALSE)
                  /\ UNCHANGED notificationIdRef
             ELSE /\ notificationIdRef' = op.id
                  /\ pendingOps' = Drop(i)
                  /\ Resumed(i, TRUE)
                  /\ UNCHANGED <<isAmbientPlaying, audioAmbient, scheduled,
                                 nextNotification>>
          /\ TimerStateKept
          /\ UNCHANGED <<now, appState, startTimeRef, userWantsAmbient, timerLoaded,
                         timerSnapshot, delivered, listenerScope>>

\* pauseTimer up to its first await; the button calls it while playing, any
\* other caller of the context may call it in any state
pauseTimerBegins ==
    /\ Called("pauseTimer", TRUE)
    /\ timerLoaded
    /\ Len(pendingOps) < MaxPending
    /\ pauseTimer
    /\ audioAmbient' = IF audioAmbient = "playing" THEN "paused" ELSE audioAmbient
    /\ pendingOps' = Suspend("pauseTimer", "ambient", null)
    /\ UNCHANGED <<now, appState, startTimeRef, notificationIdRef,
                   userWantsAmbient, timerLoaded, isAmbientPlaying, scheduled,
                   delivered, nextNotification>>
    /\ DeviceRender

\* the rest of pauseTimer and of resetTimer: setIsAmbientPlaying(false) after the
\* ambient call, then cancelNotification if an id is kept, then the id is dropped
CancelResumes(i) ==
    /\ IF pendingOps[i].at = "ambient"
       THEN /\ isAmbientPlaying' = FALSE
            /\ IF notificationIdRef # null
               THEN /\ scheduled' = Cancelled(notificationIdRef)
                    /\ pendingOps' = Move(i, "cancel", notificationIdRef)
                    /\ Resumed(i, FALSE)
               ELSE /\ pendingOps' = Drop(i)
                    /\ Resumed(i, TRUE)
                    /\ UNCHANGED scheduled
            /\ UNCHANGED notificationIdRef
       ELSE /\ notificationIdRef' = null
            /\ pendingOps' = Drop(i)
            /\ Resumed(i, TRUE)
            /\ UNCHANGED <<isAmbientPlaying, scheduled>>
    /\ TimerStateKept
    /\ UNCHANGED <<now, appState, startTimeRef, userWantsAmbient, timerLoaded,
                   audioAmbient, timerSnapshot, delivered, nextNotification,
                   listenerScope>>

pauseTimerResumes ==
    \E i \in 1..Len(pendingOps) : pendingOps[i].op = "pauseTimer" /\ CancelResumes(i)

\* resetTimer up to its first await
resetTimerBegins ==
    /\ Called("resetTimer", TRUE)
    /\ timerLoaded
    /\ Len(pendingOps) < MaxPending
    /\ resetTimer
    /\ startTimeRef' = null
    /\ userWantsAmbient' = FALSE
    /\ audioAmbient' = "none"
    /\ pendingOps' = Suspend("resetTimer", "ambient", null)
    /\ UNCHANGED <<now, appState, notificationIdRef, timerLoaded,
                   isAmbientPlaying, scheduled, delivered, nextNotification>>
    /\ DeviceRender

resetTimerResumes ==
    \E i \in 1..Len(pendingOps) : pendingOps[i].op = "resetTimer" /\ CancelResumes(i)

\* resetSession up to its first await
resetSessionBegins ==
    /\ Called("resetSession", TRUE)
    /\ timerLoaded
    /\ Len(pendingOps) < MaxPending
    /\ resetSession
    /\ startTimeRef' = null
    /\ userWantsAmbient' = FALSE
    /\ audioAmbient' = "none"
    /\ pendingOps' = Suspend("resetSession", "ambient", null)
    /\ UNCHANGED <<now, appState, notificationIdRef, timerLoaded,
                   isAmbientPlaying, scheduled, delivered, nextNotification>>
    /\ DeviceRender

\* resetSession after stopAmbientSound, and after cancelAllNotifications
resetSessionResumes ==
    /\ \E i \in 1..Len(pendingOps) :
          /\ pendingOps[i].op = "resetSession"
          /\ IF pendingOps[i].at = "ambient"
             THEN /\ isAmbientPlaying' = FALSE
                  /\ scheduled' = {}
                  /\ pendingOps' = Move(i, "cancel", null)
                  /\ Resumed(i, FALSE)
                  /\ UNCHANGED notificationIdRef
             ELSE /\ notificationIdRef' = null
                  /\ pendingOps' = Drop(i)
                  /\ Resumed(i, TRUE)
                  /\ UNCHANGED <<isAmbientPlaying, scheduled>>
          /\ TimerStateKept
          /\ UNCHANGED <<now, appState, startTimeRef, userWantsAmbient, timerLoaded,
                         audioAmbient, timerSnapshot, delivered, nextNotification,
                         listenerScope>>

\* FocusScreen handleToggleAmbient, up to the await of the handler it calls:
\* startAmbientSound while no ambient sound plays, stopAmbientSound otherwise
handleToggleAmbient ==
    /\ Called(IF isAmbientPlaying THEN "stopAmbientSound" ELSE "startAmbientSound",
              TRUE)
    /\ timerLoaded
    /\ Len(pendingOps) < MaxPending
    /\ IF isAmbientPlaying
       THEN /\ userWantsAmbient' = FALSE
            /\ audioAmbient' = "none"
            /\ pendingOps' = Suspend("stopAmbientSound", "ambient", null)
       ELSE /\ settings.ambientSound # "none"
            /\ userWantsAmbient' = TRUE
            /\ pendingOps' = Suspend("startAmbientSound", "ambient", null)
            /\ UNCHANGED audioAmbient
    /\ TimerStateKept
    /\ UNCHANGED <<now, appState, startTimeRef, notificationIdRef, timerLoaded,
                   isAmbientPlaying, timerSnapshot, scheduled, delivered,
                   nextNotification, listenerScope>>

\* startAmbientSound after playAmbientSound, stopAmbientSound after the stop
AmbientResumes ==
    /\ \E i \in 1..Len(pendingOps) :
          /\ IF pendingOps[i].op = "startAmbientSound"
             THEN \E success \in BOOLEAN :
                     /\ isAmbientPlaying' = success
                     /\ audioAmbient' = IF success THEN "playing" ELSE "none"
             ELSE /\ pendingOps[i].op = "stopAmbientSound"
                  /\ isAmbientPlaying' = FALSE
                  /\ UNCHANGED audioAmbient
          /\ pendingOps' = Drop(i)
          /\ Resumed(i, TRUE)
          /\ TimerStateKept
          /\ UNCHANGED <<now, appState, startTimeRef, notificationIdRef,
                         userWantsAmbient, timerLoaded, timerSnapshot, scheduled,
                         delivered, nextNotification, listenerScope>>

\* the system delivers a scheduled notification that is due; it carries the
\* START_BREAK and START_FOCUS buttons of the TIMER_COMPLETE category
DeliverNotification ==
    /\ Elapsed
    /\ \E n \in scheduled :
          /\ n.due <= now
          /\ scheduled' = scheduled \ {n}
          /\ delivered' = delivered \cup {n}
          /\ TimerStateKept
          /\ UNCHANGED <<now, appState, startTimeRef, notificationIdRef,
                         userWantsAmbient, timerLoaded, isAmbientPlaying,
                         audioAmbient, timerSnapshot, nextNotification, pendingOps,
                         listenerScope>>

Actions == {"START_BREAK", "START_FOCUS", "DISMISS"}

\* a rule that counts the break about to start as one more pomodoro (not the
\* listener's)
newModeAfter == NextMode(completedPomodoros + 1)

\* newMode of the listener's START_BREAK branch
newMode ==
    IF completedPomodoros % settings.pomodorosUntilLongBreak = 0
    THEN "longBreak" ELSE "shortBreak"

\* the user answers a delivered notification with the app in the foreground:
\* the listener registered by the effect of lines 140-160 runs
OnNotificationAction(action) ==
    /\ Called(action, FALSE)
    /\ timerLoaded
    /\ appState = "active"
    /\ \E n \in delivered : delivered' = delivered \ {n}
    /\ IF action = "DISMISS"
       THEN UNCHANGED <<mode, remainingTime, widgetRemaining, timerRef, isPlaying,
                        startTimeRef>>
       ELSE /\ mode' = IF action = "START_FOCUS" THEN "focus" ELSE newMode
            /\ remainingTime' = getDuration(mode')
            /\ widgetRemaining' = remainingTime'
            /\ startTimerInternal(listenerScope)
            /\ startTimeRef' = StartTime(listenerScope)
    /\ UNCHANGED <<completedPomodoros, pendingComplete, pendingAutoStart,
                   settingsVars, taskVars, insightVars, historyVars>>
    /\ Render
    /\ UNCHANGED <<now, appState, notificationIdRef, userWantsAmbient,
                   timerLoaded, isAmbientPlaying, audioAmbient, scheduled,
                   nextNotification, pendingOps>>
    /\ DeviceRender

\* AppState reports a change: the handleAppStateChange of the first render runs
handleAppStateChange(nextAppState) ==
    /\ Called("handleAppStateChange", FALSE)
    /\ nextAppState # appState
    /\ remainingTime' =
          IF /\ appState = "background" /\ nextAppState = "active"
             /\ mountScope.isPlaying /\ startTimeRef # null
          THEN Max(0, getDurationIn(mountScope.settings, mountScope.mode)
                      - (now - startTimeRef[1]))
          ELSE remainingTime
    /\ appState' = nextAppState
    /\ UNCHANGED <<isPlaying, mode, completedPomodoros, timerRef, pendingComplete,
                   pendingAutoStart, widgetRemaining, settingsVars, taskVars,
                   insightVars, historyVars>>
    /\ Render
    /\ UNCHANGED <<now, startTimeRef, notificationIdRef, userWantsAmbient,
                   timerLoaded, isAmbientPlaying, audioAmbient, scheduled,
                   delivered, nextNotification, pendingOps>>
    /\ DeviceRender

\* The process is killed.  The variables show the first render of the
\* PomodoroProvider of the next process, whose mount effect runs when the app
\* is opened again.  Storage and the system's notifications survive.
RelaunchApp ==
    /\ Called("relaunch", FALSE)
    /\ UNCHANGED <<settingsVars, taskVars, insightVars, historyVars, now,
                   timerSnapshot, scheduled, delivered, nextNotification>>
    /\ isPlaying' = FALSE
    /\ mode' = "focus"
    /\ completedPomodoros' = 0
    /\ remainingTime' = getDurationIn(mountScope.settings, "focus")
    /\ widgetRemaining' = remainingTime'
    /\ timerRef' = NoInterval
    /\ pendingComplete' = <<>>
    /\ pendingAutoStart' = <<>>
    /\ onPomodoroComplete' =
          RegisteredCallback(mode, tasks, currentTaskId, selectedCategory)'
    /\ startScope' = Scope(mode', remainingTime', completedPomodoros', NoCallback)
    /\ listenerScope' = startScope'
    /\ appState' = "active"
    /\ startTimeRef' = null
    /\ notificationIdRef' = null
    /\ userWantsAmbient' = FALSE
    /\ timerLoaded' = FALSE
    /\ isAmbientPlaying' = FALSE
    /\ audioAmbient' = "none"
    /\ pendingOps' = <<>>

\* what AsyncStorage holds under TIMER_STATE_KEY when it is no snapshot:
\* text that JSON.parse throws on, and a store whose getItem rejects
Garbled == [stored |-> TRUE, text |-> "garbled"]
Unreadable == [stored |-> FALSE, rejects |-> TRUE]

\* getItem resolved with text and JSON.parse gave a TimerState
Parsed(state) == state.stored /\ "mode" \in DOMAIN state

\* the test of loadTimerState: the stored timer was running
WasRunning(state) == Parsed(state) /\ state.isPlaying /\ state.startedAt # null

\* no time is taken to have passed while the app was closed
ElapsedNone(startedAt) == 0

\* the whole seconds since startedAt: Math.floor((Date.now() - startedAt) / 1000)
ElapsedSince(startedAt) == now - startedAt[1]

\* loadTimerState, called by the mount effect
loadTimerState ==
    /\ ~timerLoaded
    /\ IF Parsed(timerSnapshot)
       THEN LET state == timerSnapshot IN
            /\ mode' = state.mode
            /\ completedPomodoros' = state.completedPomodoros
            /\ IF WasRunning(state)
               THEN LET elapsed == ElapsedSince(state.startedAt)
                        newRemaining == Max(0, state.remainingTime - elapsed)
                    IN  /\ remainingTime' = newRemaining
                        /\ IF newRemaining > 0
                           THEN isPlaying' = FALSE
                           ELSE UNCHANGED isPlaying
               ELSE /\ remainingTime' =
                          IF state.remainingTime # 0
                          THEN state.remainingTime
                          ELSE getDurationIn(mountScope.settings, state.mode)
                    /\ UNCHANGED isPlaying
       ELSE UNCHANGED <<mode, completedPomodoros, remainingTime, isPlaying>>
    /\ timerLoaded' = TRUE
    /\ widgetRemaining' = remainingTime'
    /\ UNCHANGED <<timerRef, pendingComplete, pendingAutoStart, settingsVars,
                   taskVars, insightVars, historyVars>>
    /\ Render
    /\ UNCHANGED <<now, appState, startTimeRef, notificationIdRef,
                   userWantsAmbient, isAmbientPlaying, audioAmbient, scheduled,
                   delivered, nextNotification, pendingOps>>
    /\ DeviceRender
    /\ Happened(IF WasRunning(timerSnapshot) THEN "loadTimerState (running)"
                ELSE "loadTimerState")

\* The app is opened with the settings of a user who chose short intervals and
\* an ambient sound, and with the snapshot an idle timer left in storage.
InitDevice ==
    /\ \E auto \in BOOLEAN :
          settings = [workDuration |-> 2, shortBreakDuration |-> 1,
                      longBreakDuration |-> 3, autoStartNext |-> auto,
                      pomodorosUntilLongBreak |-> 2, ambientSound |-> "rain"]
    /\ storedSettings = settings
    /\ settingsLoaded = TRUE
    /\ inputValue = <<>>
    /\ tasks = <<>>
    /\ archivedTasks = <<>>
    /\ currentTaskId = NoTask
    /\ deferred = <<>>
    /\ nextId = 1
    /\ sessions = <<>>
    /\ selectedCategory = "work"
    /\ currentStreak = 0
    /\ bestStreak = 0
    /\ today = 0
    /\ isPlaying = FALSE
    /\ mode = "focus"
    /\ completedPomodoros = 0
    /\ remainingTime = getDurationIn(mountScope.settings, "focus")
    /\ onPomodoroComplete =
          RegisteredCallback(mode, tasks, currentTaskId, selectedCategory)
    /\ timerRef = NoInterval
    /\ startScope = Scope(mode, remainingTime, completedPomodoros, NoCallback)
    /\ pendingComplete = <<>>
    /\ pendingAutoStart = <<>>
    /\ widgetRemaining = remainingTime
    /\ focusExpiries = 0
    /\ completions = 0
    /\ steps = 0
    /\ afterReset = FALSE
    /\ now = 0
    /\ appState = "active"
    /\ startTimeRef = null
    /\ notificationIdRef = null
    /\ userWantsAmbient = FALSE
    /\ timerLoaded = FALSE
    /\ isAmbientPlaying = FALSE
    /\ audioAmbient = "none"
    /\ timerSnapshot =
          [stored |-> TRUE, mode |-> "focus",
           remainingTime |-> settings.workDuration * TicksPerMinute,
           isPlaying |-> FALSE, completedPomodoros |-> 0,
           startedAt |-> null, pausedAt |-> <<0>>]
    /\ scheduled = {}
    /\ delivered = {}
    /\ nextNotification = 1
    /\ pendingOps = <<>>
    /\ listenerScope = startScope
    /\ events = NoCalls
    /\ IdlePurchase
    /\ IdleAudio

NextDevice ==
    \/ loadTimerState /\ UNCHANGED serviceVars
    \/ TickSecond /\ UNCHANGED serviceVars
    \/ IdleSecond /\ UNCHANGED serviceVars
    \/ CompleteResumes /\ UNCHANGED serviceVars
    \/ AutoStartFires /\ UNCHANGED serviceVars
    \/ startTimerBegins /\ UNCHANGED serviceVars
    \/ startTimerResumes /\ UNCHANGED serviceVars
    \/ pauseTimerBegins /\ UNCHANGED serviceVars
    \/ pauseTimerResumes /\ UNCHANGED serviceVars
    \/ resetTimerBegins /\ UNCHANGED serviceVars
    \/ resetTimerResumes /\ UNCHANGED serviceVars
    \/ resetSessionBegins /\ UNCHANGED serviceVars
    \/ resetSessionResumes /\ UNCHANGED serviceVars
    \/ handleToggleAmbient /\ UNCHANGED serviceVars
    \/ AmbientResumes /\ UNCHANGED serviceVars
    \/ DeliverNotification /\ UNCHANGED serviceVars
    \/ \E action \in Actions :
          OnNotificationAction(action) /\ UNCHANGED serviceVars
    \/ \E nextAppState \in {"active", "background"} :
          handleAppStateChange(nextAppState) /\ UNCHANGED serviceVars
    \/ RelaunchApp /\ UNCHANGED serviceVars

SpecDevice == InitDevice /\ [][NextDevice]_vars

----------------------------------------------------------------------------
(* Claims about pausing and resetting the timer on the device *)

\* the handler called last, if it has run to its end with no other step since
LastCall ==
    IF events.ops # <<>> /\ ~events.running
    THEN events.ops[Len(events.ops)] ELSE "none"

\* what the user can observe of the timer, its notifications and its sound
Observed ==
    <<isPlaying, timerRef, mode, remainingTime, completedPomodoros, scheduled,
      delivered, isAmbientPlaying, audioAmbient>>

\* a step of pauseTimer
PauseStep == pauseTimerBegins \/ pauseTimerResumes

\* C11: pause() is idempotent and touches only the running state.  No step of
\* pauseTimer changes mode, remainingTime or completedPomodoros; when a call of
\* pauseTimer has run to its end and no other handler is suspended, isPlaying is
\* false, no interval is live and no completion notification is scheduled; and
\* a second call that follows the first at once changes nothing the user can
\* observe.
C11_PauseIdempotent ==
    /\ [][PauseStep => UNCHANGED <<mode, remainingTime, completedPomodoros>>]_vars
    /\ [](LastCall = "pauseTimer" /\ pendingOps = <<>> =>
             ~isPlaying /\ ~timerRef.live /\ scheduled = {})
    /\ [][events'.ops = <<"pauseTimer", "pauseTimer">> => UNCHANGED Observed]_vars

\* a step of resetTimer
ResetStep == resetTimerBegins \/ resetTimerResumes

\* startTimer, called right after a resetTimer that ran to its end, is waiting
\* for playAmbientSound, or the sound plays
AmbientResumed ==
    \/ audioAmbient = "playing"
    \/ isAmbientPlaying
    \/ \E i \in 1..Len(pendingOps) :
          pendingOps[i].op = "startTimer" /\ pendingOps[i].at = "playAmbientSound"

\* C12: resetTimer() restores the full duration of the current mode and clears
\* the resume intent.  No step of resetTimer changes mode or completedPomodoros;
\* when a call has run to its end and no other handler is suspended, the timer
\* is paused with remainingTime = getDuration(mode), userWantsAmbientRef is
\* false and no completion notification is scheduled; and a startTimer() that
\* follows at once does not start the ambient sound.
C12_ResetTimer ==
    /\ [][ResetStep => UNCHANGED <<mode, completedPomodoros>>]_vars
    /\ [](LastCall = "resetTimer" /\ pendingOps = <<>> =>
             /\ ~isPlaying /\ ~timerRef.live
             /\ remainingTime = getDuration(mode)
             /\ ~userWantsAmbient
             /\ scheduled = {})
    /\ [](events.ops = <<"resetTimer", "startTimer">> => ~AmbientResumed)

----------------------------------------------------------------------------
(* Claims about the persisted snapshot and the app's life cycle *)

\* nothing is left that makes the timer count down by itself
TimerIdle ==
    /\ ~isPlaying /\ ~timerRef.live
    /\ pendingComplete = <<>> /\ pendingAutoStart = <<>>

\* C13: a timer that was running when the process died comes up paused.  When
\* loadTimerState reads a snapshot with isPlaying true and startedAt set, the
\* timer has the snapshot's mode and completedPomodoros, remainingTime is
\* max(0, snapshot.remainingTime - (now - startedAt) in whole seconds), and it is
\* not playing; and it stays idle in every step until the user or a
\* notification answer does something.
C13_LoadRunningSnapshot ==
    /\ [][loadTimerState /\ WasRunning(timerSnapshot) =>
            /\ mode' = timerSnapshot.mode
            /\ completedPomodoros' = timerSnapshot.completedPomodoros
            /\ remainingTime' =
                  Max(0, timerSnapshot.remainingTime
                         - (now - timerSnapshot.startedAt[1]))
            /\ TimerIdle']_vars
    /\ [][TimerIdle /\ events'.n = events.n => TimerIdle']_vars

\* a running Focus timer with more time left than has passed since it was
\* started came up paused, one second short
C13_Witness ==
    /\ LastCall = "loadTimerState (running)"
    /\ mode = "focus"
    /\ remainingTime = 1
    /\ TimerIdle

\* the app returns to the foreground
ToForeground ==
    /\ appState = "background"
    /\ handleAppStateChange("active")

\* C14: on return to the foreground while the timer runs, remainingTime is
\* recomputed from the wall clock: max(0, getDuration(mode) - whole seconds
\* since startTimeRef.current), whatever started the run.
C14_ForegroundRecomputes ==
    [][ToForeground /\ isPlaying /\ startTimeRef # null =>
          remainingTime' = Max(0, getDuration(mode) - (now - startTimeRef[1]))]_vars

\* C15: the persisted snapshot has at most one of startedAt and pausedAt set:
\* startedAt only with isPlaying true, pausedAt only with isPlaying false.
C15_SnapshotTimestamps ==
    timerSnapshot.stored =>
       /\ ~(timerSnapshot.startedAt # null /\ timerSnapshot.pausedAt # null)
       /\ timerSnapshot.startedAt # null => timerSnapshot.isPlaying
       /\ timerSnapshot.pausedAt # null => ~timerSnapshot.isPlaying

\* the snapshot a running timer wrote after its first tick
C15_Witness ==
    /\ timerSnapshot.stored
    /\ timerSnapshot.isPlaying
    /\ timerSnapshot.startedAt = <<0>>
    /\ timerSnapshot.pausedAt = null
    /\ timerSnapshot.remainingTime = 1
    /\ now = 1

----------------------------------------------------------------------------
(* The timer with the user choosing what the session is for *)

\* FocusScreen's category picker, rendered in focus mode while no task is
\* selected and the session has not started
setSelectedCategory(category) ==
    /\ mode = "focus"
    /\ currentTask = 0
    /\ ~sessionStarted
    /\ selectedCategory' = category
    /\ UNCHANGED <<isPlaying, mode, completedPomodoros, remainingTime, timerRef,
                   pendingComplete, pendingAutoStart, widgetRemaining,
                   settingsVars, taskVars, sessions, currentStreak, bestStreak,
                   today, historyVars>>
    /\ Render

\* the behaviours of SpecTimerQuiet, with the user also selecting and
\* deselecting the task on the task screen, picking a category and clearing
\* the insights data
NextFocus ==
    \/ NextQuiet
    \/ \E id \in TaskIds : Quiet /\ setCurrentTaskId(id) /\ UNCHANGED deviceVars
    \/ \E category \in Categories :
          Quiet /\ setSelectedCategory(category) /\ UNCHANGED deviceVars
    \/ Quiet /\ clearAllData /\ UNCHANGED deviceVars

SpecFocus == InitTimer /\ [][NextFocus]_vars

\* C16: the session recorded at a Focus completion carries the data of the
\* moment of completion: duration = workDuration, the category of the task
\* selected then (the picked category if none is), that task's id; and exactly
\* that task's pomodorosCompleted grows by one.
C16_SessionOfSelectedTask ==
    [][(FinishComplete /\ Completing.running /\ Completing.at = "focus"
           /\ Len(sessions') = Len(sessions) + 1)
        => LET session == sessions'[Len(sessions')] IN
           /\ session.duration = settings.workDuration
           /\ session.category =
                 effectiveCategory(tasks, currentTaskId, selectedCategory)
           /\ session.taskId = IF currentTask # 0 THEN currentTaskId ELSE NoTask
           /\ \A i \in 1..Len(tasks) :
                 tasks'[i].pomodorosCompleted =
                    tasks[i].pomodorosCompleted
                    + (IF tasks[i].id = currentTaskId THEN 1 ELSE 0)]_vars

----------------------------------------------------------------------------
(* The session log *)

\* C17: in every step the session log is unchanged, extended by exactly one
\* record appended at the end, or emptied; no record already in the log is
\* modified, moved or removed on its own.
C17_SessionLogSteps ==
    [][\/ sessions' = sessions
       \/ /\ Len(sessions') = Len(sessions) + 1
          /\ SubSeq(sessions', 1, Len(sessions)) = sessions
       \/ sessions' = <<>>]_vars

\* two sessions recorded one after the other, the second for a category
\* picked after the first was recorded
C17_Witness ==
    /\ Len(sessions) = 2
    /\ sessions[1].category = "work"
    /\ sessions[2].category = "study"

----------------------------------------------------------------------------
(* Auto-start of the next interval *)

\* The timer of SpecTimerQuiet with the event loop doing its work: an await of
\* handleTimerComplete resolves and the timeout of line 303 / 315 fires.
SpecAuto ==
    /\ SpecTimerQuiet
    /\ WF_vars(FinishComplete /\ UNCHANGED deviceVars)
    /\ WF_vars(AutoStart /\ UNCHANGED deviceVars)

\* the steps the program takes by itself
ProgramStep == Tick \/ WidgetTick \/ FinishComplete \/ AutoStart \/ RunDeferred

\* a completion has set the next mode and its full duration, and the timer is
\* paused
AwaitingStart ==
    /\ completions > 0
    /\ pendingComplete = <<>>
    /\ ~isPlaying
    /\ remainingTime = getDuration(mode)

\* C18: with autoStartNext, every completion is followed, with no user action,
\* by the timer running in the mode the completion set, started at the full
\* duration of that mode; without autoStartNext the timer stays paused at the
\* full duration of that mode until the user acts.
C18_AutoStartNext ==
    /\ [](settings.autoStartNext /\ pendingComplete # <<>>
             => <>(isPlaying /\ timerRef.live))
    /\ [][/\ settings.autoStartNext
          /\ pendingAutoStart # <<>>
          /\ pendingAutoStart' = Tail(pendingAutoStart)
          => /\ isPlaying' /\ timerRef'.live
             /\ mode' = mode
             /\ remainingTime' = getDuration(mode')]_vars
    /\ [][~settings.autoStartNext /\ AwaitingStart /\ ProgramStep
          => AwaitingStart' /\ mode' = mode]_vars

----------------------------------------------------------------------------
(* Answers to a delivered notification *)

----------------------------------------------------------------------------
(* Purchases: PurchaseService (MOCK_MODE), PremiumContext, PaywallScreen *)

\* calls of the purchaser info listener in one behaviour
MaxListenerCalls == 3

\* MOCK_PRODUCTS: identifier and period
MOCK_PRODUCTS ==
    {[identifier |-> PRODUCT_IDS.MONTHLY, period |-> "monthly"],
     [identifier |-> PRODUCT_IDS.ANNUAL, period |-> "annual"]}

\* the product ids handed to purchase(productId): the two offered and one
\* that is not
ProductIds == {PRODUCT_IDS.MONTHLY, PRODUCT_IDS.ANNUAL, "premium_lifetime"}

\* the error strings PurchaseService.ts names
Errors == {"Product not found", "Purchase cancelled", "Purchase failed",
           "Not implemented"}

\* the values of { success: boolean; error?: string }
Results ==
    {[success |-> ok, error |-> e] :
        ok \in BOOLEAN, e \in {null} \cup {<<text>> : text \in Errors}}

\* MOCK_PRODUCTS.find((p) => p.identifier === productId)
Find(productId) == {p \in MOCK_PRODUCTS : p.identifier = productId}

\* the purchaser info of a subscription bought today; the expiration date is
\* today plus one period
Subscribed(productId, period) ==
    [isPremium |-> TRUE, activeSubscriptions |-> <<productId>>,
     expirationDate |-> <<[from |-> today, plus |-> period]>>,
     originalPurchaseDate |-> <<today>>]

\* a call suspended: who awaits it, what it was called with, where it stands
\* and what it resolves with
Purchase(caller, productId, at, result) ==
    [caller |-> caller, productId |-> productId, at |-> at, result |-> result]

\* purchaseProduct(productId) up to its await, or the stand-in's answer
purchaseProduct(caller, productId) ==
    IF gateway # null
    THEN /\ pendingPurchase' =
               <<Purchase(caller, productId, "returned", gateway[1])>>
         /\ UNCHANGED <<purchaserInfo, premiumStatus>>
    ELSE IF Find(productId) = {}
    THEN /\ pendingPurchase' =
               <<Purchase(caller, productId, "returned",
                          [success |-> FALSE, error |-> <<"Product not found">>])>>
         /\ UNCHANGED <<purchaserInfo, premiumStatus>>
    ELSE /\ purchaserInfo' =
               Subscribed(productId, (CHOOSE p \in Find(productId) : TRUE).period)
         /\ premiumStatus' = [stored |-> TRUE, info |-> purchaserInfo']
         /\ pendingPurchase' =
               <<Purchase(caller, productId, "saveMockStatus",
                          [success |-> TRUE, error |-> null])>>

\* what the purchase steps leave alone
PurchaseFrame ==
    UNCHANGED <<timerVars, settingsVars, taskVars, insightVars, historyVars,
                osVars, audioVars>>

\* a message that also reports a cancelled purchase (not what handlePurchase
\* shows)
AlertAnyError(result) ==
    IF result.success THEN <<"Welcome to Premium!">>
    ELSE IF result.error # null THEN <<"Purchase Failed", result.error[1]>>
    ELSE null

\* the Alert of handlePurchase for the result of purchase(selectedProduct)
PurchaseAlert(result) ==
    IF result.success THEN <<"Welcome to Premium!">>
    ELSE IF result.error # null /\ result.error # <<"Purchase cancelled">>
    THEN <<"Purchase Failed", result.error[1]>>
    ELSE null

\* the product cards of PaywallScreen
setSelectedProduct(productId) ==
    /\ alert = null
    /\ selectedProduct' = productId
    /\ UNCHANGED <<purchaserInfo, premiumStatus, pendingPurchase, isPremium,
                   listenerCalls, alert, gateway>>
    /\ PurchaseFrame

\* handlePurchase up to its await; the button is disabled while a purchase is
\* processed and an Alert covers it while one is shown
handlePurchaseBegins ==
    /\ alert = null
    /\ pendingPurchase = <<>>
    /\ listenerCalls < MaxListenerCalls
    /\ purchaseProduct("handlePurchase", selectedProduct)
    /\ UNCHANGED <<isPremium, listenerCalls, selectedProduct, alert, gateway>>
    /\ PurchaseFrame

\* purchase(productId) of PremiumContext called with any product id
purchase(productId) ==
    /\ pendingPurchase = <<>>
    /\ listenerCalls < MaxListenerCalls
    /\ purchaseProduct("purchase", productId)
    /\ UNCHANGED <<isPremium, listenerCalls, selectedProduct, alert, gateway>>
    /\ PurchaseFrame

\* saveMockStatus resolves: notifyListeners runs the listener of
\* PremiumContext
purchaseProductResumes ==
    /\ pendingPurchase # <<>>
    /\ pendingPurchase[1].at = "saveMockStatus"
    /\ isPremium' = purchaserInfo.isPremium
    /\ listenerCalls' = listenerCalls + 1
    /\ pendingPurchase' = <<[pendingPurchase[1] EXCEPT !.at = "returned"]>>
    /\ UNCHANGED <<purchaserInfo, premiumStatus, selectedProduct, alert, gateway>>
    /\ PurchaseFrame

\* the caller's await resolves: handlePurchase shows its Alert
handlePurchaseResumes ==
    /\ pendingPurchase # <<>>
    /\ pendingPurchase[1].at = "returned"
    /\ alert' = IF pendingPurchase[1].caller = "handlePurchase"
                THEN PurchaseAlert(pendingPurchase[1].result)
                ELSE alert
    /\ pendingPurchase' = <<>>
    /\ UNCHANGED <<purchaserInfo, premiumStatus, isPremium, listenerCalls,
                   selectedProduct, gateway>>
    /\ PurchaseFrame

\* the user closes the Alert
DismissAlert ==
    /\ alert # null
    /\ alert' = null
    /\ UNCHANGED <<purchaserInfo, premiumStatus, pendingPurchase, isPremium,
                   listenerCalls, selectedProduct, gateway>>
    /\ PurchaseFrame

\* toggleMockPremium, the [DEV] row; its await of saveMockStatus is taken to
\* resolve before the next event
toggleMockPremium ==
    /\ alert = null
    /\ pendingPurchase = <<>>
    /\ listenerCalls < MaxListenerCalls
    /\ purchaserInfo' = IF purchaserInfo.isPremium THEN NoPurchaser
                        ELSE Subscribed(PRODUCT_IDS.MONTHLY, "monthly")
    /\ premiumStatus' = [stored |-> TRUE, info |-> purchaserInfo']
    /\ isPremium' = purchaserInfo'.isPremium
    /\ listenerCalls' = listenerCalls + 1
    /\ UNCHANGED <<pendingPurchase, selectedProduct, alert, gateway>>
    /\ PurchaseFrame

\* The paywall on a fresh install; PaywallScreen is given the purchase of
\* PremiumContext or a stand-in that resolves with one result of its type.
InitPurchase ==
    /\ settings = defaultSettings
    /\ storedSettings = settings
    /\ settingsLoaded = TRUE
    /\ inputValue = <<>>
    /\ tasks = <<>>
    /\ archivedTasks = <<>>
    /\ currentTaskId = NoTask
    /\ deferred = <<>>
    /\ nextId = 1
    /\ sessions = <<>>
    /\ selectedCategory = "work"
    /\ currentStreak = 0
    /\ bestStreak = 0
    /\ today = 0
    /\ isPlaying = FALSE
    /\ mode = "focus"
    /\ completedPomodoros = 0
    /\ remainingTime = settings.workDuration * TicksPerMinute
    /\ onPomodoroComplete =
          RegisteredCallback(mode, tasks, currentTaskId, selectedCategory)
    /\ timerRef = NoInterval
    /\ startScope = Scope(mode, remainingTime, completedPomodoros, NoCallback)
    /\ pendingComplete = <<>>
    /\ pendingAutoStart = <<>>
    /\ widgetRemaining = remainingTime
    /\ focusExpiries = 0
    /\ completions = 0
    /\ steps = 0
    /\ afterReset = FALSE
    /\ now = 0
    /\ appState = "active"
    /\ startTimeRef = null
    /\ notificationIdRef = null
    /\ userWantsAmbient = FALSE
    /\ timerLoaded = TRUE
    /\ isAmbientPlaying = FALSE
    /\ audioAmbient = "none"
    /\ timerSnapshot = NoData
    /\ scheduled = {}
    /\ delivered = {}
    /\ nextNotification = 1
    /\ pendingOps = <<>>
    /\ listenerScope = Scope("focus", 0, 0, NoCallback)
    /\ events = NoCalls
    /\ purchaserInfo = NoPurchaser
    /\ premiumStatus = NoData
    /\ pendingPurchase = <<>>
    /\ isPremium = FALSE
    /\ listenerCalls = 0
    /\ selectedProduct = PRODUCT_IDS.ANNUAL
    /\ alert = null
    /\ gateway \in {null} \cup {<<result>> : result \in Results}
    /\ IdleAudio

NextPurchase ==
    \/ \E productId \in {PRODUCT_IDS.MONTHLY, PRODUCT_IDS.ANNUAL} :
          setSelectedProduct(productId)
    \/ handlePurchaseBegins
    \/ \E productId \in ProductIds : purchase(productId)
    \/ purchaseProductResumes
    \/ handlePurchaseResumes
    \/ DismissAlert
    \/ toggleMockPremium

SpecPurchase == InitPurchase /\ [][NextPurchase]_vars

\* what the entitlement consists of, and the count of listener calls
Entitlement == <<purchaserInfo, premiumStatus, isPremium, listenerCalls>>

\* C20: when the purchase awaited by handlePurchase resolves with success =
\* false, a failure message is shown iff the result has an error string other
\* than the cancellation's; purchaseProduct of a product id that is not offered
\* resolves with success false and "Product not found", and neither the call
\* nor its return changes the entitlement or calls a listener.
C20_PurchaseFailure ==
    /\ [][/\ handlePurchaseResumes
          /\ pendingPurchase[1].caller = "handlePurchase"
          /\ ~pendingPurchase[1].result.success
          => LET error == pendingPurchase[1].result.error
             IN  IF error # null /\ error[1] # "Purchase cancelled"
                 THEN alert' = <<"Purchase Failed", error[1]>>
                 ELSE alert' = null]_vars
    /\ [][\A productId \in ProductIds :
             productId \notin {"premium_monthly", "premium_annual"}
             /\ gateway = null /\ purchase(productId)
             => /\ pendingPurchase'[1].at = "returned"
                /\ pendingPurchase'[1].result =
                      [success |-> FALSE, error |-> <<"Product not found">>]
                /\ UNCHANGED Entitlement]_vars
    /\ [][/\ pendingPurchase # <<>>
          /\ pendingPurchase[1].productId \notin {"premium_monthly", "premium_annual"}
          /\ gateway = null
          => UNCHANGED Entitlement]_vars

\* the purchase awaited by handlePurchase has failed with an error that is
\* not the cancellation, and the message is on screen
C20_Witness ==
    /\ alert = <<"Purchase Failed", "Purchase failed">>
    /\ pendingPurchase = <<>>
    /\ gateway = <<[success |-> FALSE, error |-> <<"Purchase failed">>]>>

----------------------------------------------------------------------------
(* Launching the app with no usable timer snapshot *)

\* The app is opened with the default settings or with those of a user who
\* chose short intervals, and AsyncStorage has no snapshot to give: none is
\* stored, the stored text does not parse, or the read fails.
InitLaunch ==
    /\ settings \in {defaultSettings,
                      [workDuration |-> 2, shortBreakDuration |-> 1,
                       longBreakDuration |-> 3, autoStartNext |-> TRUE,
                       pomodorosUntilLongBreak |-> 2, ambientSound |-> "rain"]}
    /\ storedSettings = settings
    /\ settingsLoaded = TRUE
    /\ inputValue = <<>>
    /\ tasks = <<>>
    /\ archivedTasks = <<>>
    /\ currentTaskId = NoTask
    /\ deferred = <<>>
    /\ nextId = 1
    /\ sessions = <<>>
    /\ selectedCategory = "work"
    /\ currentStreak = 0
    /\ bestStreak = 0
    /\ today = 0
    /\ isPlaying = FALSE
    /\ mode = "focus"
    /\ completedPomodoros = 0
    /\ remainingTime = getDurationIn(mountScope.settings, "focus")
    /\ onPomodoroComplete =
          RegisteredCallback(mode, tasks, currentTaskId, selectedCategory)
    /\ timerRef = NoInterval
    /\ startScope = Scope(mode, remainingTime, completedPomodoros, NoCallback)
    /\ pendingComplete = <<>>
    /\ pendingAutoStart = <<>>
    /\ widgetRemaining = remainingTime
    /\ focusExpiries = 0
    /\ completions = 0
    /\ steps = 0
    /\ afterReset = FALSE
    /\ now = 0
    /\ appState = "active"
    /\ startTimeRef = null
    /\ notificationIdRef = null
    /\ userWantsAmbient = FALSE
    /\ timerLoaded = FALSE
    /\ isAmbientPlaying = FALSE
    /\ audioAmbient = "none"
    /\ timerSnapshot \in {NoData, Garbled, Unreadable}
    /\ scheduled = {}
    /\ delivered = {}
    /\ nextNotification = 1
    /\ pendingOps = <<>>
    /\ listenerScope = startScope
    /\ events = NoCalls
    /\ IdlePurchase
    /\ IdleAudio

SpecLaunch == InitLaunch /\ [][NextDevice]_vars

\* C21: when the snapshot is missing or cannot be read or parsed, the load
\* leaves the timer at focus, paused, no pomodoro completed and remainingTime =
\* workDuration * 60, marks loading finished, and from then on the stored
\* snapshot carries the timer's current values.
C21_LoadWithoutSnapshot ==
    /\ [][loadTimerState /\ ~Parsed(timerSnapshot)
          => /\ mode' = "focus"
             /\ ~isPlaying'
             /\ completedPomodoros' = 0
             /\ remainingTime' = settings.workDuration * TicksPerMinute
             /\ timerLoaded']_vars
    /\ [](timerLoaded
          => /\ Parsed(timerSnapshot)
             /\ timerSnapshot.mode = mode
             /\ timerSnapshot.remainingTime = remainingTime
             /\ timerSnapshot.isPlaying = isPlaying
             /\ timerSnapshot.completedPomodoros = completedPomodoros)

----------------------------------------------------------------------------
(* The save effect *)

\* C22: once loading has finished, every step that changes mode,
\* remainingTime, isPlaying or completedPomodoros stores a snapshot with the
\* values after the change, and the stored snapshot is not written while
\* loading has not finished.
C22_SnapshotOnEveryChange ==
    /\ [][/\ timerLoaded'
          /\ <<mode, remainingTime, isPlaying, completedPomodoros>>' #
                <<mode, remainingTime, isPlaying, completedPomodoros>>
          => /\ Parsed(timerSnapshot')
             /\ timerSnapshot'.mode = mode'
             /\ timerSnapshot'.remainingTime = remainingTime'
             /\ timerSnapshot'.isPlaying = isPlaying'
             /\ timerSnapshot'.completedPomodoros = completedPomodoros']_vars
    /\ [][~timerLoaded' => timerSnapshot' = timerSnapshot]_vars

\* the timer was paused one second after its start and the snapshot of the
\* paused timer is stored
C22_Witness ==
    /\ LastCall = "pauseTimer"
    /\ ~isPlaying
    /\ remainingTime = 1
    /\ timerSnapshot.stored
    /\ ~timerSnapshot.isPlaying
    /\ timerSnapshot.remainingTime = 1
    /\ timerSnapshot.pausedAt = <<1>>

----------------------------------------------------------------------------
(* The interval of timerRef and the paused timer *)

\* C23: while isPlaying is false no interval is live, and a step that changes
\* the mode or sets remainingTime back up finds the interval of the run before
\* cleared unless it replaces it, whether the completion came from the
\* interval or from completePomodoro().
C23_NoTickWhilePaused ==
    /\ [](~isPlaying => ~timerRef.live)
    /\ [][/\ mode' # mode \/ remainingTime' > remainingTime
          /\ timerRef' = timerRef
          => ~timerRef.live]_vars

----------------------------------------------------------------------------
(* startTimer interleaved with pauseTimer and the resets *)

\* The device with the process staying alive and the app in the foreground:
\* the presses of the buttons, the awaits they are suspended at, the seconds
\* and the completions.  A native call resolves within the second it was
\* issued in.
NextCalls ==
    \/ loadTimerState /\ UNCHANGED serviceVars
    \/ pendingOps = <<>> /\ TickSecond /\ UNCHANGED serviceVars
    \/ pendingOps = <<>> /\ IdleSecond /\ UNCHANGED serviceVars
    \/ CompleteResumes /\ UNCHANGED serviceVars
    \/ AutoStartFires /\ UNCHANGED serviceVars
    \/ startTimerBegins /\ UNCHANGED serviceVars
    \/ startTimerResumes /\ UNCHANGED serviceVars
    \/ pauseTimerBegins /\ UNCHANGED serviceVars
    \/ pauseTimerResumes /\ UNCHANGED serviceVars
    \/ resetTimerBegins /\ UNCHANGED serviceVars
    \/ resetTimerResumes /\ UNCHANGED serviceVars
    \/ resetSessionBegins /\ UNCHANGED serviceVars
    \/ resetSessionResumes /\ UNCHANGED serviceVars
    \/ DeliverNotification /\ UNCHANGED serviceVars

SpecCalls == InitDevice /\ [][NextCalls]_vars

\* C24: however startTimer is interleaved with pauseTimer, resetTimer and
\* resetSession, when no call is suspended any more and the timer is paused,
\* no completion notification is scheduled; and never more than one is.
C24_NoNotificationLeft ==
    /\ [](pendingOps = <<>> /\ ~isPlaying => scheduled = {})
    /\ [](Cardinality(scheduled) <= 1)

----------------------------------------------------------------------------
(* AudioService: the ambient sound *)

\* calls of the ambient methods in one behaviour
MaxAudioCalls == 3

\* the ambient sounds handed to playAmbientSound
AmbientTypes == {"none", "rain"}

\* a call of AudioService: the method, its argument, the number of the call
\* (the Audio.Sound it creates bears it), the await it is suspended at and
\* whether the awaited native call succeeds
AudioCall(method, type, at, ok) ==
    [method |-> method, type |-> type, n |-> audioIssued.n + 1, at |-> at,
     ok |-> ok]

\* what the audio steps leave alone
AudioFrame ==
    UNCHANGED <<timerVars, settingsVars, taskVars, insightVars, historyVars,
                osVars, purchaseVars>>

\* playAmbientSound and stopAmbientSound after the stopping of the sound held
\* before: stopAmbientSound returns; playAmbientSound of a sound calls
\* Audio.Sound.createAsync with shouldPlay, which will succeed or fail.
\* rest: the other suspended calls.
AfterStop(call, rest) ==
    IF call.method = "playAmbientSound" /\ call.type # "none"
    THEN \E ok \in BOOLEAN :
            audioCalls' = rest \cup {[call EXCEPT !.at = "createAsync", !.ok = ok]}
    ELSE audioCalls' = rest

\* stopAmbientSound, called directly or by playAmbientSound, up to its first
\* await: stopAsync of the sound held, if one is held
StopBegins(call) ==
    IF ambientSound = null
    THEN /\ AfterStop(call, audioCalls)
         /\ UNCHANGED <<loadedSounds, playingSounds>>
    ELSE /\ audioCalls' =
               audioCalls \cup {[call EXCEPT !.at = "stopAsync",
                                              !.ok = ambientSound[1] \in loadedSounds]}
         /\ playingSounds' = playingSounds \ {ambientSound[1]}
         /\ UNCHANGED loadedSounds

\* playAmbientSound(type) up to its first await
playAmbientSound(type) ==
    /\ audioIssued.n < MaxAudioCalls
    /\ audioIssued' = [n |-> audioIssued.n + 1, last |-> "playAmbientSound"]
    /\ StopBegins(AudioCall("playAmbientSound", type, "", TRUE))
    /\ UNCHANGED <<ambientSound, ambientPlaying>>
    /\ AudioFrame

\* stopAmbientSound() up to its first await
stopAmbientSound ==
    /\ audioIssued.n < MaxAudioCalls
    /\ audioIssued' = [n |-> audioIssued.n + 1, last |-> "stopAmbientSound"]
    /\ StopBegins(AudioCall("stopAmbientSound", "none", "", TRUE))
    /\ UNCHANGED <<ambientSound, ambientPlaying>>
    /\ AudioFrame

\* pauseAmbientSound() up to its await
pauseAmbientSound ==
    /\ audioIssued.n < MaxAudioCalls
    /\ audioIssued' = [n |-> audioIssued.n + 1, last |-> "pauseAmbientSound"]
    /\ IF ambientSound # null /\ ambientPlaying
       THEN /\ audioCalls' =
                  audioCalls \cup {AudioCall("pauseAmbientSound", "none", "pauseAsync",
                                             ambientSound[1] \in loadedSounds)}
            /\ playingSounds' = playingSounds \ {ambientSound[1]}
       ELSE UNCHANGED <<audioCalls, playingSounds>>
    /\ UNCHANGED <<loadedSounds, ambientSound, ambientPlaying>>
    /\ AudioFrame

\* a suspended call goes on after the native call it awaited
AudioStep(call) ==
    /\ call \in audioCalls
    /\ LET rest == audioCalls \ {call} IN
       CASE call.at = "stopAsync" ->
               \* then this.ambientSound.unloadAsync(), of the sound held now
               IF call.ok /\ ambientSound # null
               THEN /\ loadedSounds' = loadedSounds \ {ambientSound[1]}
                    /\ playingSounds' = playingSounds \ {ambientSound[1]}
                    /\ audioCalls' = rest \cup {[call EXCEPT !.at = "unloadAsync"]}
                    /\ UNCHANGED <<ambientSound, ambientPlaying>>
               ELSE \* stopAsync rejected, or no sound is held any more: catch
                    /\ ambientSound' = null
                    /\ ambientPlaying' = FALSE
                    /\ AfterStop(call, rest)
                    /\ UNCHANGED <<loadedSounds, playingSounds>>
         [] call.at = "unloadAsync" ->
               /\ ambientSound' = null
               /\ ambientPlaying' = FALSE
               /\ AfterStop(call, rest)
               /\ UNCHANGED <<loadedSounds, playingSounds>>
         [] call.at = "createAsync" ->
               \* the sound is loaded and playing when createAsync resolves
               /\ loadedSounds' =
                     IF call.ok THEN loadedSounds \cup {call.n} ELSE loadedSounds
               /\ playingSounds' =
                     IF call.ok THEN playingSounds \cup {call.n} ELSE playingSounds
               /\ ambientSound' = IF call.ok THEN <<call.n>> ELSE ambientSound
               /\ ambientPlaying' = IF call.ok THEN TRUE ELSE ambientPlaying
               /\ audioCalls' = rest
         [] call.at = "pauseAsync" ->
               /\ ambientPlaying' = IF call.ok THEN FALSE ELSE ambientPlaying
               /\ audioCalls' = rest
               /\ UNCHANGED <<ambientSound, loadedSounds, playingSounds>>
    /\ UNCHANGED audioIssued

\* the same, the caller being none of the contexts
AudioResumes(call) ==
    /\ AudioStep(call)
    /\ AudioFrame

\* The audio gateway called in any order, a call being made while others are
\* suspended.
InitAudio ==
    /\ InitTasks

NextAudio ==
    \/ \E type \in AmbientTypes : playAmbientSound(type)
    \/ stopAmbientSound
    \/ pauseAmbientSound
    \/ \E call \in audioCalls : AudioResumes(call)

SpecAudio == InitAudio /\ [][NextAudio]_vars

\* C25: however playAmbientSound, pauseAmbientSound and stopAmbientSound are
\* interleaved, at most one ambient sound is loaded at any time, and when
\* stopAmbientSound was issued last and every call has completed, no ambient
\* sound is loaded or playing.
C25_OneAmbientSound ==
    /\ [](Cardinality(loadedSounds) <= 1)
    /\ [](audioIssued.last = "stopAmbientSound" /\ audioCalls = {}
          => loadedSounds = {} /\ playingSounds = {})

----------------------------------------------------------------------------
(* The streak counters of InsightsContext, as its consumers read them *)

\* C26: whenever currentStreak and bestStreak are read, they are what
\* calculateStreaks gives for the session log and the date of that moment,
\* also after the date has advanced with no new session and after
\* clearAllData.
C26_StreaksFollowTheDate ==
    /\ currentStreak = calculateStreaks(sessions, today).current
    /\ bestStreak = calculateStreaks(sessions, today).best

----------------------------------------------------------------------------
(* The range of the time left *)

\* C27: in every reachable state the time left is at least 0 and at most the
\* duration of the current mode under the current settings, also after a
\* duration has been changed in the settings while the timer is paused or
\* running.
C27_RemainingWithinDuration ==
    /\ 0 <= remainingTime
    /\ remainingTime <= getDuration(mode)

----------------------------------------------------------------------------
(* The interval of a running timer *)

\* The timer of SpecTimerQuiet with the event loop doing its work: the interval
\* of setInterval fires every second while it is live, and an await of
\* handleTimerComplete resolves.
SpecTicking ==
    /\ SpecTimerQuiet
    /\ WF_vars(Tick /\ UNCHANGED deviceVars)
    /\ WF_vars(FinishComplete /\ UNCHANGED deviceVars)

----------------------------------------------------------------------------
(* The ambient sound of the free tier: the sound rows of SettingsScreen,
   canUseAmbientSound of PremiumContext and startAmbientSound of
   PomodoroContext *)

\* the rows of the AMBIENT SOUND card
AMBIENT_SOUNDS ==
    {[value |-> "none", premium |-> FALSE], [value |-> "rain", premium |-> FALSE],
     [value |-> "forest", premium |-> FALSE], [value |-> "cafe", premium |-> TRUE],
     [value |-> "ocean", premium |-> TRUE], [value |-> "fireplace", premium |-> TRUE]}

FREE_TIER_LIMITS == [ambientSounds |-> {"rain", "forest"}]

canUseAmbientSound(soundId) ==
    isPremium \/ soundId \in FREE_TIER_LIMITS.ambientSounds

\* what the handlers of the sound rows and of the ambient button leave alone
SoundFrame ==
    UNCHANGED <<timerVars, taskVars, insightVars, historyVars, inputValue,
                settingsLoaded, now, appState, startTimeRef, notificationIdRef,
                timerLoaded, audioAmbient, timerSnapshot, scheduled, delivered,
                nextNotification, pendingOps, listenerScope, events,
                purchaseVars>>

\* stopAmbientSound of PomodoroContext up to its await, and past it when
\* AudioService holds no sound and returns at once
ContextStopBegins ==
    /\ audioIssued.n < MaxAudioCalls
    /\ userWantsAmbient' = FALSE
    /\ audioIssued' = [n |-> audioIssued.n + 1, last |-> "stopAmbientSound"]
    /\ StopBegins(AudioCall("stopAmbientSound", "none", "", TRUE))
    /\ isAmbientPlaying' = IF ambientSound = null THEN FALSE ELSE isAmbientPlaying
    /\ UNCHANGED <<ambientSound, ambientPlaying>>

\* onPress of the row of sound: a locked row opens the paywall, any other row
\* selects the sound and stops the ambient sound that plays
PressSoundRow(sound) ==
    LET isLocked == sound.premium /\ ~canUseAmbientSound(sound.value) IN
    /\ IF isLocked
       THEN UNCHANGED <<settings, storedSettings, userWantsAmbient,
                        isAmbientPlaying, audioVars>>
       ELSE /\ settings' = [settings EXCEPT !.ambientSound = sound.value]
            /\ storedSettings' = settings'
            /\ IF isAmbientPlaying
               THEN ContextStopBegins
               ELSE UNCHANGED <<userWantsAmbient, isAmbientPlaying, audioVars>>
    /\ SoundFrame

\* startAmbientSound of PomodoroContext (the ambient button of FocusScreen
\* while nothing plays), up to its await
startAmbientSound ==
    /\ ~isAmbientPlaying
    /\ settings.ambientSound # "none"
    /\ audioIssued.n < MaxAudioCalls
    /\ userWantsAmbient' = TRUE
    /\ audioIssued' = [n |-> audioIssued.n + 1, last |-> "playAmbientSound"]
    /\ StopBegins(AudioCall("playAmbientSound", settings.ambientSound, "", TRUE))
    /\ UNCHANGED <<ambientSound, ambientPlaying, isAmbientPlaying, settings,
                   storedSettings>>
    /\ SoundFrame

\* a call of AudioService goes on; when it returns, startAmbientSound sets
\* isAmbientPlaying to its success and stopAmbientSound sets it to false
SoundResumes(call) ==
    /\ AudioStep(call)
    /\ isAmbientPlaying' =
          IF \E other \in audioCalls' : other.n = call.n THEN isAmbientPlaying
          ELSE call.method = "playAmbientSound" /\ call.ok
    /\ UNCHANGED <<settings, storedSettings, userWantsAmbient>>
    /\ SoundFrame

\* The settings screen, the paywall and the ambient button on a fresh install,
\* PaywallScreen being given the purchase of PremiumContext.
InitSounds ==
    /\ InitPurchase
    /\ gateway = null

NextSounds ==
    \/ \E sound \in AMBIENT_SOUNDS : PressSoundRow(sound)
    \/ startAmbientSound
    \/ \E call \in audioCalls : SoundResumes(call)
    \/ \E productId \in {PRODUCT_IDS.MONTHLY, PRODUCT_IDS.ANNUAL} :
          setSelectedProduct(productId)
    \/ handlePurchaseBegins
    \/ purchaseProductResumes
    \/ handlePurchaseResumes
    \/ DismissAlert
    \/ toggleMockPremium

SpecSounds == InitSounds /\ [][NextSounds]_vars

\* C29: whenever the entitlement is not premium, the selected ambient sound
\* and the sound of every playAmbientSound the timer has issued is none, rain
\* or forest, whatever sounds were selected, purchases made and premium
\* toggles done before.
C29_FreeTierSounds ==
    ~purchaserInfo.isPremium =>
       /\ settings.ambientSound \in {"none"} \cup FREE_TIER_LIMITS.ambientSounds
       /\ \A call \in audioCalls :
             call.method = "playAmbientSound"
             => call.type \in {"none"} \cup FREE_TIER_LIMITS.ambientSounds

----------------------------------------------------------------------------
(* The selected task *)

\* C30: after any sequence of addTask, setCurrentTaskId of an active task,
\* deleteTask, completeTask, incrementPomodoro with its auto-archive and
\* restoreTask, once the deferred completions have run, currentTaskId is null
\* or the id of a task of the active list (so never that of an archived or
\* deleted task); the deferred completion of the selected task sets it to null.
C30_CurrentTaskIsActive ==
    /\ [](deferred = <<>>
          => currentTaskId = NoTask \/ FindIndex(tasks, currentTaskId) # 0)
    /\ [][/\ deferred # <<>>
          /\ deferred' = Tail(deferred)
          /\ currentTaskId = Head(deferred).id
          => currentTaskId' = NoTask]_vars

\* the selected task was archived by its last pomodoro and another task has
\* been selected since
C30_Witness ==
    /\ deferred = <<>>
    /\ currentTaskId # NoTask
    /\ FindIndex(tasks, currentTaskId) # 0
    /\ \E i \in 1..Len(archivedTasks) :
          archivedTasks[i].pomodorosCompleted >= archivedTasks[i].pomodoroEstimate

====
